---------------------------- MODULE Spec2Model ----------------------------
(***************************************************************************)
(* Terraform README generator (the generator with the four variable        *)
(* categories, .github/scripts/generate-readme-v2.js lines 626-984):       *)
(* brace-balanced block extraction, variable parsing, classification and   *)
(* Basic Usage rendering.                                                  *)
(*                                                                         *)
(* Text is a sequence of lexical units.  Every unit stands for a fixed     *)
(* character string: a keyword ("variable", "default", ...), one           *)
(* punctuation character, one whitespace character or one letter.  No      *)
(* keyword can be formed across two units, so a regular expression of the  *)
(* source matches a text exactly where its unit-level translation does.    *)
(* JavaScript indices are 0-based, the indices here are 1-based.           *)
(***************************************************************************)
EXTENDS Integers, Sequences, FiniteSets

VARIABLES
    files,            \* Object.values(tfFiles): the texts of the *.tf files
    fileIdx,          \* number of files whose for-iteration has started
    content,          \* extractVariables / parseVariableBlock: the text scanned
    lastIndex,        \* variableRegex.lastIndex (1-based: next unit to try)
    startIndex,       \* parseVariableBlock: index of the last call
    blockContent,     \* result of the last parseVariableBlock call
    extracted,        \* extractVariables: its local `variables` array
    variables,        \* prepareContext: `variables`
    requiredVars,
    triggerVars,
    conditionalVars,
    optionalVars,
    basicUsageBlock,  \* generateReadme: `basicUsageBlock`
    parsed,           \* generateReadme: its argument `parsed` (the AI reply)
    conditionalUsageSections,  \* generateReadme: `conditionalUsageSections`
    existing,         \* the file README.md of the directory
    readme,           \* generateReadme: `readme`, the value returned
    options,          \* main: the parsed command line, and GITHUB_TOKEN
    directories,      \* main: `directories`, with what each of them holds
    rootReadme,       \* the README.md above the base directory
    dirIdx,           \* main: number of directories whose iteration began
    success,          \* main: `success`
    failed,           \* main: `failed`
    written,          \* files written so far: 0 the root README.md, i the
                      \* README.md of the i-th directory
    exitCode,         \* process exit code, NoExit while running
    format,           \* callAI: provider.format
    retryConfig,      \* callOpenAIFormat / callAnthropicFormat: `retryConfig`
    attempt,          \* the loop variable `attempt`
    requests,         \* number of fetch calls made
    lastDelay,        \* the argument of the last sleep, 0 before any
    lastResponse,     \* `lastResponse?.status`, NoStatus when undefined
    received,         \* what each fetch of the call brought, in order
    pc

vars ==
    << files, fileIdx, content, lastIndex, startIndex, blockContent, extracted,
       variables, requiredVars, triggerVars, conditionalVars, optionalVars,
       basicUsageBlock, parsed, conditionalUsageSections, existing, readme,
       options, directories, rootReadme, dirIdx, success, failed, written,
       exitCode, format, retryConfig, attempt, requests, lastDelay,
       lastResponse, received, pc >>

\* the variables of main
mainVars ==
    << options, directories, rootReadme, dirIdx, success, failed, written,
       exitCode >>

\* the variables of the AI client
clientVars ==
    << format, retryConfig, attempt, requests, lastDelay, lastResponse,
       received >>

(***************************************************************************)
(* Bounds                                                                  *)
(***************************************************************************)
MaxLen == 5

MaxFrags == 3

MaxDecls == 2

MaxGroups == 2

(***************************************************************************)
(* Lexical units and character classes                                     *)
(***************************************************************************)
SP == " "

NL == "\n"

QUOTE == "\""

\* \s of the regular expressions, and the characters String.trim removes
IsSpace(c) == c \in {SP, NL}

\* \w : the units made of word characters only
IsWord(c) ==
    c \in {"a", "b", "c", "B", "_", "variable", "default", "validation",
           "condition", "error_message", "description"}

\* the characters a unit stands for
Spelling(c) ==
    CASE c = "variable" -> << "v", "a", "r", "i", "a", "b", "l", "e" >>
      [] c = "default" -> << "d", "e", "f", "a", "u", "l", "t" >>
      [] c = "validation" ->
            << "v", "a", "l", "i", "d", "a", "t", "i", "o", "n" >>
      [] c = "condition" -> << "c", "o", "n", "d", "i", "t", "i", "o", "n" >>
      [] c = "error_message" ->
            << "e", "r", "r", "o", "r", "_", "m", "e", "s", "s", "a", "g", "e" >>
      [] c = "description" ->
            << "d", "e", "s", "c", "r", "i", "p", "t", "i", "o", "n" >>
      [] c = "undefined" ->
            << "u", "n", "d", "e", "f", "i", "n", "e", "d" >>
      [] OTHER -> << c >>

\* a text as the sequence of its characters
RECURSIVE Expand(_)
Expand(s) ==
    IF s = <<>> THEN <<>> ELSE Spelling(Head(s)) \o Expand(Tail(s))

\* the least and the greatest element of a non-empty set of indices
Least(S) == CHOOSE x \in S : \A y \in S : x <= y

Greatest(S) == CHOOSE x \in S : \A y \in S : y <= x

\* index of the first unit at or after i that is not whitespace (\s* greedy)
RECURSIVE SkipSpace(_, _)
SkipSpace(s, i) ==
    IF i <= Len(s) /\ IsSpace(s[i]) THEN SkipSpace(s, i + 1) ELSE i

(***************************************************************************)
(* parseVariableBlock                                                      *)
(***************************************************************************)
\* one iteration of the for loop.  The loop state holds the index i, the
\* values of braceCount and inBlock, and done once the loop has ended; i is
\* then the index of the last character read.
LoopStep(text, st) ==
    IF st.i > Len(text)
    THEN [st EXCEPT !.i = Len(text), !.done = TRUE]
    ELSE LET char == text[st.i]
             opened == IF char = "{"
                       THEN st.braceCount + 1
                       ELSE st.braceCount
             nowIn == st.inBlock \/ char = "{"
             count == IF char = "}" THEN opened - 1 ELSE opened
         IN  [ i |-> IF nowIn /\ count = 0 THEN st.i ELSE st.i + 1,
               braceCount |-> count,
               inBlock |-> nowIn,
               done |-> nowIn /\ count = 0 ]

\* at most n iterations
RECURSIVE LoopSteps(_, _, _)
LoopSteps(text, st, n) ==
    IF n = 0 \/ st.done
    THEN st
    ELSE LoopSteps(text, LoopStep(text, st), n - 1)

\* the whole loop, run in stretches of sixteen iterations: the index of the
\* last character read
RECURSIVE ScanBlock(_, _)
ScanBlock(text, st) ==
    IF st.done THEN st.i ELSE ScanBlock(text, LoopSteps(text, st, 16))

LoopStart(start) ==
    [i |-> start, braceCount |-> 0, inBlock |-> FALSE, done |-> FALSE]

\* blockContent: the characters read while inBlock, that is from the first
\* "{" at or after start up to the last character read
BlockContent(text, start, last) ==
    LET opens == {k \in start..Len(text) : text[k] = "{"}
    IN  IF opens = {} THEN <<>> ELSE SubSeq(text, Least(opens), last)

\* mutation: the depth counter is not kept, the scan ends at the first "}"
\* after the opening brace
parseVariableBlockFirstClose(text, start) ==
    LET opens == {k \in start..Len(text) : text[k] = "{"}
        closes == {k \in start..Len(text) :
                      text[k] = "}" /\ \E o \in opens : o < k}
    IN  BlockContent(text, start,
                     IF closes = {} THEN Len(text) ELSE Least(closes))

\* mutation: a block whose brace is never closed is dropped
\* (return braceCount === 0 ? blockContent : '')
parseVariableBlockClosedOnly(text, start) ==
    LET b == BlockContent(text, start, ScanBlock(text, LoopStart(start)))
    IN  IF b # <<>> /\ b[Len(b)] = "}"
              /\ Cardinality({k \in 1..Len(b) : b[k] = "{"})
                     = Cardinality({k \in 1..Len(b) : b[k] = "}"})
        THEN b
        ELSE <<>>

parseVariableBlock(text, start) ==
    BlockContent(text, start, ScanBlock(text, LoopStart(start)))

(***************************************************************************)
(* extractVariables: the header pattern /variable\s+"([^"]+)"\s*\{/g       *)
(***************************************************************************)
\* index of the first double quote at or after i, Len(s) + 1 when none
RECURSIVE NextQuote(_, _)
NextQuote(s, i) ==
    IF i <= Len(s) /\ s[i] # QUOTE THEN NextQuote(s, i + 1) ELSE i

\* mutation: the pattern anchored at the beginning of a line
\* (/^variable\s+"([^"]+)"\s*\{/gm)
HeaderMatchAtLineStart(s, p) ==
    LET q1 == SkipSpace(s, p + 1)
        q2 == NextQuote(s, q1 + 1)
        b == SkipSpace(s, q2 + 1)
    IN  [ ok |-> /\ p <= Len(s)
                 /\ (p = 1 \/ s[p - 1] = NL)
                 /\ s[p] = "variable"
                 /\ q1 > p + 1
                 /\ q1 <= Len(s)
                 /\ s[q1] = QUOTE
                 /\ q2 <= Len(s)
                 /\ q2 > q1 + 1
                 /\ b <= Len(s)
                 /\ s[b] = "{",
          nameFrom |-> q1 + 1,
          nameTo |-> q2 - 1,
          brace |-> b ]

\* the pattern applied at index p; brace is the index of the final "{"
HeaderMatchAt(s, p) ==
    LET q1 == SkipSpace(s, p + 1)
        q2 == NextQuote(s, q1 + 1)
        b == SkipSpace(s, q2 + 1)
    IN  [ ok |-> /\ p <= Len(s)
                 /\ s[p] = "variable"
                 /\ q1 > p + 1
                 /\ q1 <= Len(s)
                 /\ s[q1] = QUOTE
                 /\ q2 <= Len(s)
                 /\ q2 > q1 + 1
                 /\ b <= Len(s)
                 /\ s[b] = "{",
          nameFrom |-> q1 + 1,
          nameTo |-> q2 - 1,
          brace |-> b ]

\* variableRegex.exec(content): index of the leftmost match at or after
\* `from`, 0 for null
ExecFrom(s, from) ==
    LET hits == {p \in from..Len(s) :
                    s[p] = "variable" /\ HeaderMatchAt(s, p).ok}
    IN  IF hits = {} THEN 0 ELSE Least(hits)

(***************************************************************************)
(* /\bdefault\s*=/.test(blockContent)                                      *)
(***************************************************************************)
HasDefault(block) ==
    \E p \in 1..Len(block) :
        /\ block[p] = "default"
        /\ (p = 1 \/ ~IsWord(block[p - 1]))
        /\ LET e == SkipSpace(block, p + 1)
           IN  e <= Len(block) /\ block[e] = "="

(***************************************************************************)
(* blockContent.match(/validation\s*\{[\s\S]*?condition\s*=\s*([\s\S]*?)   *)
(*                     (?:\n\s*error_message)/)                            *)
(***************************************************************************)
\* validation\s*\{ at p
ValidationOpenAt(s, p) ==
    /\ p <= Len(s)
    /\ s[p] = "validation"
    /\ LET q == SkipSpace(s, p + 1) IN q <= Len(s) /\ s[q] = "{"

\* \n\s*error_message at g
ErrorMessageTailAt(s, g) ==
    /\ g <= Len(s)
    /\ s[g] = NL
    /\ LET m == SkipSpace(s, g + 1) IN m <= Len(s) /\ s[m] = "error_message"

\* leftmost index at or after g where the tail matches, 0 when none
FirstErrorMessageTail(s, g) ==
    LET hits == {k \in g..Len(s) : ErrorMessageTailAt(s, k)}
    IN  IF hits = {} THEN 0 ELSE Least(hits)

\* rightmost index in lo..hi where the tail matches, 0 when none
LastErrorMessageTail(s, lo, hi) ==
    LET hits == {k \in lo..hi : ErrorMessageTailAt(s, k)}
    IN  IF hits = {} THEN 0 ELSE Greatest(hits)

\* condition\s*=\s*([\s\S]*?)(?:\n\s*error_message) at c.  The greedy \s*
\* after "=" takes the whole whitespace run; the lazy group then grows to
\* the first tail.  Only when no tail follows does \s* give units back, and
\* the group is then empty at the rightmost tail inside the run.
ConditionMatchAt(s, c) ==
    LET eq == SkipSpace(s, c + 1)
        run == SkipSpace(s, eq + 1)
        g1 == FirstErrorMessageTail(s, run)
        g2 == LastErrorMessageTail(s, eq + 1, run - 1)
        head == c <= Len(s) /\ s[c] = "condition"
                    /\ eq <= Len(s) /\ s[eq] = "="
    IN  IF head /\ g1 # 0
        THEN [ok |-> TRUE, group |-> SubSeq(s, run, g1 - 1)]
        ELSE IF head /\ g2 # 0
             THEN [ok |-> TRUE, group |-> <<>>]
             ELSE [ok |-> FALSE, group |-> <<>>]

\* the lazy [\s\S]*? before `condition`: leftmost c at or after `from`
FirstConditionMatch(s, from) ==
    LET hits == {c \in from..Len(s) :
                    s[c] = "condition" /\ ConditionMatchAt(s, c).ok}
    IN  IF hits = {}
        THEN [ok |-> FALSE, group |-> <<>>]
        ELSE ConditionMatchAt(s, Least(hits))

\* String.match: the leftmost p at which the whole pattern matches
ValidationMatchFrom(s, p) ==
    LET hits == {q \in p..Len(s) :
                    /\ ValidationOpenAt(s, q)
                    /\ FirstConditionMatch(s, SkipSpace(s, q + 1) + 1).ok}
    IN  IF hits = {}
        THEN [ok |-> FALSE, group |-> <<>>]
        ELSE FirstConditionMatch(s, SkipSpace(s, Least(hits) + 1) + 1)

validationMatch(block) == ValidationMatchFrom(block, 1)

\* String.trim
RECURSIVE TrimEnd(_)
TrimEnd(s) ==
    IF s # <<>> /\ IsSpace(s[Len(s)]) THEN TrimEnd(SubSeq(s, 1, Len(s) - 1)) ELSE s

Trim(s) == TrimEnd(SubSeq(s, SkipSpace(s, 1), Len(s)))

(***************************************************************************)
(* blockContent.match(/validation\s*\{[\s\S]*?\n\s*\}/)?.[0] || ''         *)
(***************************************************************************)
\* \n\s*\} at g
CloseTailAt(s, g) ==
    /\ g <= Len(s)
    /\ s[g] = NL
    /\ LET m == SkipSpace(s, g + 1) IN m <= Len(s) /\ s[m] = "}"

FirstCloseTail(s, g) ==
    LET hits == {k \in g..Len(s) : CloseTailAt(s, k)}
    IN  IF hits = {} THEN 0 ELSE Least(hits)

FullBlockFrom(s, p) ==
    LET hits == {q \in p..Len(s) :
                    /\ ValidationOpenAt(s, q)
                    /\ FirstCloseTail(s, SkipSpace(s, q + 1) + 1) # 0}
        q0 == Least(hits)
    IN  IF hits = {}
        THEN <<>>
        ELSE SubSeq(s, q0,
                    SkipSpace(s,
                              FirstCloseTail(s, SkipSpace(s, q0 + 1) + 1) + 1))

fullBlock(block) == FullBlockFrom(block, 1)

NoValidation == [present |-> FALSE, condition |-> <<>>, fullBlock |-> <<>>]

\* mutation: an object also when the validation pattern does not match
validationAlwaysObject(block) ==
    [ present |-> TRUE,
      condition |-> Trim(validationMatch(block).group),
      fullBlock |-> fullBlock(block) ]

\* the `validation` property: null is the record with present = FALSE
validation(block) ==
    IF validationMatch(block).ok
    THEN [ present |-> TRUE,
           condition |-> Trim(validationMatch(block).group),
           fullBlock |-> fullBlock(block) ]
    ELSE NoValidation

(***************************************************************************)
(* blockContent.match(/description\s*=\s*"([^"]+)"/)                       *)
(***************************************************************************)
DescriptionMatchAt(s, p) ==
    LET eq == SkipSpace(s, p + 1)
        q1 == SkipSpace(s, eq + 1)
        q2 == NextQuote(s, q1 + 1)
    IN  [ ok |-> /\ p <= Len(s)
                 /\ s[p] = "description"
                 /\ eq <= Len(s)
                 /\ s[eq] = "="
                 /\ q1 <= Len(s)
                 /\ s[q1] = QUOTE
                 /\ q2 <= Len(s)
                 /\ q2 > q1 + 1,
          group |-> SubSeq(s, q1 + 1, q2 - 1) ]

DescriptionFrom(s, p) ==
    LET hits == {q \in p..Len(s) :
                    s[q] = "description" /\ DescriptionMatchAt(s, q).ok}
    IN  IF hits = {} THEN <<>> ELSE DescriptionMatchAt(s, Least(hits)).group

description(block) == DescriptionFrom(block, 1)

\* the object pushed for the match at index p of text s
VariableAt(s, p) ==
    LET m == HeaderMatchAt(s, p)
        block == parseVariableBlock(s, m.brace)
    IN  [ name |-> SubSeq(s, m.nameFrom, m.nameTo),
          hasDefault |-> HasDefault(block),
          validation |-> validation(block),
          description |-> description(block) ]

(***************************************************************************)
(* prepareContext: the four filters                                        *)
(***************************************************************************)
\* mutation: the three-category rule, every variable without default
RequiredWithoutDefault(vs) == SelectSeq(vs, LAMBDA v : ~v.hasDefault)

FilterRequired(vs) ==
    SelectSeq(vs, LAMBDA v : ~v.hasDefault /\ ~v.validation.present)

\* mutation: the triggers, last discovered first
FilterTriggerReversed(vs) ==
    LET kept == SelectSeq(vs, LAMBDA v : ~v.hasDefault /\ v.validation.present)
    IN  [i \in 1..Len(kept) |-> kept[Len(kept) + 1 - i]]

FilterTrigger(vs) ==
    SelectSeq(vs, LAMBDA v : ~v.hasDefault /\ v.validation.present)

FilterConditional(vs) ==
    SelectSeq(vs, LAMBDA v : v.hasDefault /\ v.validation.present)

\* mutation: every variable with a default
OptionalWithDefault(vs) == SelectSeq(vs, LAMBDA v : v.hasDefault)

FilterOptional(vs) ==
    SelectSeq(vs, LAMBDA v : v.hasDefault /\ ~v.validation.present)

(***************************************************************************)
(* generateReadme: Basic Usage.  Rendering works on characters.            *)
(***************************************************************************)
\* collation order of the characters (String.localeCompare, root locale):
\* whitespace, punctuation, symbols, digits, letters
Collation ==
    << NL, SP, "_", "-", "{", "}", "#", "=", "0", "1", "2", "3", "4", "5",
       "6", "7", "8", "9", "a", "b", "c", "d", "e", "f", "g", "h", "i", "j",
       "k", "l", "m", "n", "o", "p", "q", "r", "s", "t", "u", "v", "w", "x",
       "y", "z" >>

UpperCase ==
    << "A", "B", "C", "D", "E", "F", "G", "H", "I", "J", "K", "L", "M", "N",
       "O", "P", "Q", "R", "S", "T", "U", "V", "W", "X", "Y", "Z" >>

LowerCase ==
    << "a", "b", "c", "d", "e", "f", "g", "h", "i", "j", "k", "l", "m", "n",
       "o", "p", "q", "r", "s", "t", "u", "v", "w", "x", "y", "z" >>

IsUpper(ch) == \E i \in 1..Len(UpperCase) : UpperCase[i] = ch

ToLower(ch) ==
    IF IsUpper(ch)
    THEN LowerCase[CHOOSE i \in 1..Len(UpperCase) : UpperCase[i] = ch]
    ELSE ch

\* primary weight of every character: a letter weighs the same in both cases
PrimaryWeights ==
    [ch \in {Collation[i] : i \in 1..Len(Collation)}
              \cup {UpperCase[i] : i \in 1..Len(UpperCase)} |->
        CHOOSE i \in 1..Len(Collation) : Collation[i] = ToLower(ch)]

CollationRank(ch) ==
    IF ch \in DOMAIN PrimaryWeights THEN PrimaryWeights[ch] ELSE 0

\* comparison of the primary weights, left to right
RECURSIVE ComparePrimary(_, _)
ComparePrimary(a, b) ==
    CASE a = <<>> /\ b = <<>> -> 0
      [] a = <<>> /\ b # <<>> -> -1
      [] a # <<>> /\ b = <<>> -> 1
      [] OTHER ->
            IF CollationRank(Head(a)) < CollationRank(Head(b))
            THEN -1
            ELSE IF CollationRank(Head(a)) > CollationRank(Head(b))
                 THEN 1
                 ELSE ComparePrimary(Tail(a), Tail(b))

\* comparison of the case of strings with equal primary weights: at the
\* first difference the lower-case letter comes first
RECURSIVE CompareCase(_, _)
CompareCase(a, b) ==
    IF a = <<>> \/ b = <<>>
    THEN 0
    ELSE IF Head(a) = Head(b)
         THEN CompareCase(Tail(a), Tail(b))
         ELSE IF IsUpper(Head(b)) THEN -1 ELSE 1

\* mutation: comparison by UTF-16 code unit, as Array.prototype.sort()
\* without a comparator orders strings
CodeUnits ==
    << NL, SP, QUOTE, "#", "-", "0", "1", "2", "3", "4", "5", "6", "7", "8",
       "9", "=", "A", "B", "C", "D", "E", "F", "G", "H", "I", "J", "K", "L",
       "M", "N", "O", "P", "Q", "R", "S", "T", "U", "V", "W", "X", "Y", "Z",
       "_", "a", "b", "c", "d", "e", "f", "g", "h", "i", "j", "k", "l", "m",
       "n", "o", "p", "q", "r", "s", "t", "u", "v", "w", "x", "y", "z", "{",
       "}" >>

CodeUnitWeights ==
    [ch \in {CodeUnits[i] : i \in 1..Len(CodeUnits)} |->
        CHOOSE i \in 1..Len(CodeUnits) : CodeUnits[i] = ch]

CodeUnitRank(ch) ==
    IF ch \in DOMAIN CodeUnitWeights THEN CodeUnitWeights[ch] ELSE 0

RECURSIVE compareCodeUnits(_, _)
compareCodeUnits(a, b) ==
    CASE a = <<>> /\ b = <<>> -> 0
      [] a = <<>> /\ b # <<>> -> -1
      [] a # <<>> /\ b = <<>> -> 1
      [] OTHER ->
            IF CodeUnitRank(Head(a)) < CodeUnitRank(Head(b))
            THEN -1
            ELSE IF CodeUnitRank(Head(a)) > CodeUnitRank(Head(b))
                 THEN 1
                 ELSE compareCodeUnits(Tail(a), Tail(b))

\* a.localeCompare(b) for character sequences: -1, 0 or 1
localeCompare(a, b) ==
    IF ComparePrimary(a, b) # 0
    THEN ComparePrimary(a, b)
    ELSE CompareCase(a, b)

\* Array.prototype.sort((a, b) => a.name.localeCompare(b.name)): stable
RECURSIVE InsertByName(_, _)
InsertByName(v, sorted) ==
    IF sorted = <<>>
    THEN << v >>
    ELSE IF localeCompare(Expand(sorted[Len(sorted)].name), Expand(v.name)) <= 0
         THEN Append(sorted, v)
         ELSE Append(InsertByName(v, SubSeq(sorted, 1, Len(sorted) - 1)),
                     sorted[Len(sorted)])

RECURSIVE SortByName(_)
SortByName(vs) ==
    IF vs = <<>>
    THEN <<>>
    ELSE InsertByName(vs[Len(vs)], SortByName(SubSeq(vs, 1, Len(vs) - 1)))

\* [...requiredVars, ...triggerVars].sort(...); optionalVars is not used
basicUsageVars(req, trig, opt) == SortByName(req \o trig)

RECURSIVE MaxLength(_)
MaxLength(vs) ==
    IF vs = <<>>
    THEN 0
    ELSE LET rest == MaxLength(Tail(vs))
             here == Len(Expand(Head(vs).name))
         IN  IF here > rest THEN here ELSE rest

\* String.padEnd
padEnd(str, n) ==
    str \o [i \in 1..(IF n > Len(str) THEN n - Len(str) ELSE 0) |-> SP]

\* mutation: str.replace('_', '-'), the first underscore only
ReplaceFirstUnderscore(str) ==
    IF \E i \in 1..Len(str) : str[i] = "_"
    THEN LET f == CHOOSE i \in 1..Len(str) :
                      str[i] = "_" /\ \A j \in 1..(i - 1) : str[j] # "_"
         IN  [i \in 1..Len(str) |-> IF i = f THEN "-" ELSE str[i]]
    ELSE str

\* str.replace(/_/g, '-')
ReplaceUnderscores(str) ==
    [i \in 1..Len(str) |-> IF str[i] = "_" THEN "-" ELSE str[i]]

\* mutation: the name is not padded
UsageLineUnpadded(name, width, value) ==
    << SP, SP >> \o name \o << SP, "=", SP >> \o value

UsageLine(name, width, value) ==
    << SP, SP >> \o padEnd(name, width) \o << SP, "=", SP >> \o value

Placeholder(name) ==
    << QUOTE, "y", "o", "u", "r", "-" >> \o ReplaceUnderscores(name)
        \o << QUOTE >>

\* lines.join('\n')
RECURSIVE Join(_)
Join(lines) ==
    IF lines = <<>>
    THEN <<>>
    ELSE IF Len(lines) = 1
         THEN lines[1]
         ELSE lines[1] \o << NL >> \o Join(Tail(lines))

\* mutation: without the test basicUsageVars.length > 0
BasicUsageBlockUnguarded(req, trig, opt) ==
    LET vs == basicUsageVars(req, trig, opt)
    IN  << NL >>
        \o Join([i \in 1..Len(vs) |->
                   UsageLine(Expand(vs[i].name), MaxLength(vs),
                             Placeholder(Expand(vs[i].name)))])
        \o << NL >>

BasicUsageBlock(req, trig, opt) ==
    LET vs == basicUsageVars(req, trig, opt)
        maxVarLength == MaxLength(vs)
    IN  IF Len(vs) > 0
        THEN << NL >>
             \o Join([i \in 1..Len(vs) |->
                        UsageLine(Expand(vs[i].name), maxVarLength,
                                  Placeholder(Expand(vs[i].name)))])
             \o << NL >>
        ELSE <<>>

(***************************************************************************)
(* generateReadme: the conditional usage sections.  A usage group is a     *)
(* record of the AI reply: name, triggerVar, triggerValue, variables.  A   *)
(* missing triggerVar or triggerValue is the value Undefined; hasVariables *)
(* is FALSE when the property `variables` is missing.                      *)
(***************************************************************************)
\* the value undefined, which a template literal prints as "undefined"
Undefined == << "undefined" >>

\* fixed text of the section template, one unit each
UsageHeading == "### Usage with "

\* \n\n```hcl\nmodule "<moduleName>" {\n  source = "<moduleSource>"\n\n
ModuleOpen == "hcl module {"

\* \n}\n```
ModuleClose == "} hcl"

RequiredWhen == "Required when"

\* Array.prototype.includes
includes(list, x) == \E i \in 1..Len(list) : list[i] = x

\* vs.map(v => v.name)
Names(vs) == [i \in 1..Len(vs) |-> vs[i].name]

\* mutation: the names in the order of the concatenation, not sorted
allVarsUnsorted(req, trig, usage) ==
    Names(req) \o Names(trig) \o usage.variables

\* [...requiredVars.map(v => v.name), ...triggerVars.map(v => v.name),
\*  ...usage.variables].sort((a, b) => a.localeCompare(b))
allVars(req, trig, usage) ==
    LET all == Names(req) \o Names(trig) \o usage.variables
    IN  Names(SortByName([i \in 1..Len(all) |-> [name |-> all[i]]]))

\* Math.max(...allVars.map(v => v.length)); no line uses it when allVars is
\* empty
SectionWidth(names) ==
    MaxLength([i \in 1..Len(names) |-> [name |-> names[i]]])

\* mutation: every Trigger variable of the module shows the group's value
isTriggerOfModule(varName, usage, trig) == includes(Names(trig), varName)

\* varName === usage.triggerVar
isTrigger(varName, usage, trig) == varName = usage.triggerVar

\* mutation: the comment goes to the group's variables and to its trigger
isConditionalOrTrigger(varName, usage, cond) ==
    includes(usage.variables, varName) \/ varName = usage.triggerVar

\* mutation: only a listed name that is a known Conditional variable counts
isKnownConditional(varName, usage, cond) ==
    includes(usage.variables, varName) /\ includes(Names(cond), varName)

\* usage.variables.includes(varName)
isConditional(varName, usage, cond) == includes(usage.variables, varName)

\* `"${usage.triggerValue}"`
TriggerValueText(usage) ==
    << QUOTE >> \o Expand(usage.triggerValue) \o << QUOTE >>

\* `  # Required when ${usage.triggerVar} = "${usage.triggerValue}"`
RequirementComment(usage) ==
    << SP, SP, "#", SP, RequiredWhen, SP >> \o Expand(usage.triggerVar)
        \o << SP, "=", SP >> \o TriggerValueText(usage)

\* the callback of allVars.map(varName => ...)
SectionLine(varName, usage, width, trig, cond) ==
    LET value == IF isTrigger(varName, usage, trig)
                 THEN TriggerValueText(usage)
                 ELSE Placeholder(Expand(varName))
        comment == IF isConditional(varName, usage, cond)
                   THEN RequirementComment(usage)
                   ELSE <<>>
    IN  UsageLine(Expand(varName), width, value) \o comment

\* mutation: the column width of the Basic Usage block
SectionWidthOfBasicUsage(req, trig, usage) == MaxLength(req \o trig)

\* maxVarLength of the section
SectionMaxVarLength(req, trig, usage) == SectionWidth(allVars(req, trig, usage))

VarsBlock(req, trig, cond, usage) ==
    LET names == allVars(req, trig, usage)
        maxVarLength == SectionMaxVarLength(req, trig, usage)
    IN  Join([i \in 1..Len(names) |->
                SectionLine(names[i], usage, maxVarLength, trig, cond)])

\* the template literal returned for one usage group
Section(req, trig, cond, usage) ==
    << UsageHeading >> \o Expand(usage.name) \o << ModuleOpen >>
        \o VarsBlock(req, trig, cond, usage) \o << ModuleClose >>

\* sections.join('\n\n')
RECURSIVE JoinSections(_)
JoinSections(sections) ==
    IF sections = <<>>
    THEN <<>>
    ELSE IF Len(sections) = 1
         THEN sections[1]
         ELSE sections[1] \o << NL, NL >> \o JoinSections(Tail(sections))

\* mutation: the sections in the opposite order
ConditionalUsageSectionsReversed(req, trig, cond, conditionalUsage) ==
    JoinSections([k \in 1..Len(conditionalUsage) |->
                    Section(req, trig, cond,
                            conditionalUsage[Len(conditionalUsage) + 1 - k])])

\* parsed.conditionalUsage.map(usage => ...).join('\n\n'), '' for no group
ConditionalUsageSections(req, trig, cond, conditionalUsage) ==
    JoinSections([k \in 1..Len(conditionalUsage) |->
                    Section(req, trig, cond, conditionalUsage[k])])

\* a reply without the property conditionalUsage
NoUsage == [hasConditionalUsage |-> FALSE, conditionalUsage |-> <<>>]

\* parsed.conditionalUsage && parsed.conditionalUsage.length > 0
HasUsage(reply) ==
    reply.hasConditionalUsage /\ Len(reply.conditionalUsage) > 0

\* the spread ...usage.variables of a missing property throws a TypeError
SpreadThrows(conditionalUsage) ==
    \E k \in 1..Len(conditionalUsage) : ~conditionalUsage[k].hasVariables

(***************************************************************************)
(* generateReadme: the terraform-docs section and the README.  The fixed   *)
(* texts of the template and the two markers are one unit each.            *)
(***************************************************************************)
BeginMarker == "<!-- BEGIN_TF_DOCS -->"

EndMarker == "<!-- END_TF_DOCS -->"

\* README.md is missing: fs.existsSync(readmePath) is false
NoFile == [exists |-> FALSE, content |-> <<>>]

\* String.indexOf, 0-based, -1 when the unit does not occur
indexOf(text, unit) ==
    LET hits == {k \in 1..Len(text) : text[k] = unit}
    IN  IF hits = {} THEN -1 ELSE Least(hits) - 1

\* an index argument of String.substring: between 0 and the length
Clamp(text, i) ==
    IF i < 0 THEN 0 ELSE IF i > Len(text) THEN Len(text) ELSE i

\* String.substring(start, end): the arguments are exchanged when start is
\* greater than end
substring(text, start, end) ==
    LET a == Clamp(text, start)
        b == Clamp(text, end)
    IN  IF a <= b THEN SubSeq(text, a + 1, b) ELSE SubSeq(text, b + 1, a)

\* `${beginMarker}\n${endMarker}`
DefaultMarkers(beginMarker, endMarker) == << beginMarker, NL, endMarker >>

\* a marker is one unit: endMarker.length is 1
extractBetweenMarkers(text, beginMarker, endMarker) ==
    LET beginIndex == indexOf(text, beginMarker)
        endIndex == indexOf(text, endMarker)
    IN  IF beginIndex # -1 /\ endIndex # -1
        THEN substring(text, beginIndex, endIndex + 1)
        ELSE DefaultMarkers(beginMarker, endMarker)

\* tfDocsSection
TfDocsSection(file) ==
    IF file.exists
    THEN extractBetweenMarkers(file.content, BeginMarker, EndMarker)
    ELSE DefaultMarkers(BeginMarker, EndMarker)

\* # Module: <moduleName> ... ## Description ... ## Features ... and
\* ## Basic Usage\n\n```hcl\nmodule "<moduleName>" {\n  source = "..."
BasicUsageOpen == "# Module ## Basic Usage hcl module {"

\* }\n```\n
BasicUsageClose == "} hcl end"

\* \n## Using Outputs ... ```\n\n
UsingOutputs == "## Using Outputs"

\* the template literal and the two `readme +=`
Readme(block, sections, tfDocs) ==
    << BasicUsageOpen >> \o block \o << BasicUsageClose >>
        \o (IF sections # <<>> THEN << NL >> \o sections \o << NL >> ELSE <<>>)
        \o << UsingOutputs >> \o tfDocs \o << NL >>

(***************************************************************************)
(* main, generateReadmeForDirectory, updateRootReadme: values and tests    *)
(***************************************************************************)
\* options.type when --type is not given
Null == "null"

\* the value of exitCode while the process runs
NoExit == -1

\* the root README.md in the set `written`
RootFile == 0

\* generators.map(g => g.config.name) of the registry
GeneratorNames == {"terraform", "typescript", "python", "generic"}

\* generators.find(g => g.config.name === name) || null
getGeneratorByName(name) == IF name \in GeneratorNames THEN name ELSE Null

\* the generator of generateReadmeForDirectory for a directory of *.tf
\* files: the one named by --type, or the one detectGenerator finds
GeneratorFor(type) ==
    IF type # Null THEN getGeneratorByName(type) ELSE "terraform"

\* mutation: the file is written in a dry run too
ModuleWritesAlways(dryRun, i) == {i}

\* lines 163-172: the files generateReadmeForDirectory writes for the
\* i-th directory
ModuleWrites(dryRun, i) == IF dryRun THEN {} ELSE {i}

\* mutation: the test of options.dryRun is missing
RootWritesInDryRun(opts, root, succeeded) ==
    IF opts.all /\ succeeded > 0 /\ root = "markers"
    THEN {RootFile}
    ELSE {}

\* lines 289-291 and updateRootReadme: the files written after the loop.
\* root is "missing", "plain" (no module markers) or "markers"
RootWrites(opts, root, succeeded) ==
    IF opts.all /\ succeeded > 0 /\ root = "markers" /\ ~opts.dryRun
    THEN {RootFile}
    ELSE {}

\* mutation: the run ends with code 0 whatever failed
ExitCodeZero(failures) == 0

\* lines 296-298: process.exit(1) if failed > 0, else the normal end
ExitCode(failures) == IF failures > 0 THEN 1 ELSE 0

\* the state of main's variables in a run of the generator alone
MainIdle ==
    /\ options = [type |-> Null, dryRun |-> FALSE, all |-> FALSE,
                  token |-> TRUE]
    /\ directories = <<>>
    /\ rootReadme = "missing"
    /\ dirIdx = 0
    /\ success = 0
    /\ failed = 0
    /\ written = {}
    /\ exitCode = NoExit

(***************************************************************************)
(* The AI client: values                                                   *)
(***************************************************************************)
\* lastResponse is undefined
NoStatus == 0

DEFAULT_RETRY_CONFIG ==
    [maxRetries |-> 3, baseDelayMs |-> 1000, maxDelayMs |-> 60000]

\* what a fetch brings when it resolves: a response with a status, its
\* retry-after header (Null when absent), and its body: the awaited
\* response.json() or response.text() gives the body (body "read"; for a
\* 200 the JSON has the expected shape) or throws (body "fails"); errorText
\* is the text of an error response
Responses(status) ==
    { [status |-> status, retryAfter |-> h, body |-> b, errorText |-> t] :
        h \in (IF status = 429 THEN {Null, "2", "120", "soon"} ELSE {Null}),
        b \in {"read", "fails"},
        t \in (IF status = 429
               THEN {"", "try again in 5.295s", "try again in 0s",
                     "try again in 100s"}
               ELSE {""}) }

\* what the history of a call keeps of a response
Observed(response) == [status |-> response.status, body |-> response.body]

\* extractWaitTimeFromError: Math.ceil(parseFloat(match[1]) * 1000), and 0
\* for null; both are falsy in calculateRetryDelay
extractWaitTimeFromError(errorText) ==
    CASE errorText = "try again in 5.295s" -> 5295
      [] errorText = "try again in 100s" -> 100000
      [] OTHER -> 0

Min(a, b) == IF a < b THEN a ELSE b

\* config.baseDelayMs * Math.pow(2, attempt)
ExponentialDelay(a, config) == config.baseDelayMs * 2^a

\* retryMs is parseInt(retryAfter, 10) * 1000, with -1 for NaN
calculateRetryDelay(a, response, errorText, config) ==
    LET retryAfter == response.retryAfter
        retryMs == CASE retryAfter = "2" -> 2000
                     [] retryAfter = "120" -> 120000
                     [] OTHER -> -1
    IN  IF retryAfter # Null /\ retryMs # -1
        THEN Min(retryMs + 500, config.maxDelayMs)
        ELSE IF extractWaitTimeFromError(errorText) # 0
             THEN Min(extractWaitTimeFromError(errorText) + 500,
                      config.maxDelayMs)
             ELSE Min(ExponentialDelay(a, config), config.maxDelayMs)

\* mutation: one more iteration
InLoopOnceMore(a, config) == a <= config.maxRetries + 1

\* the condition of the for loop
InLoop(a, config) == a <= config.maxRetries

\* attempt < retryConfig.maxRetries
CanRetry(a, config) == a < config.maxRetries


\* the state of the client's variables when no call is modelled
ClientIdle ==
    /\ format = "openai"
    /\ retryConfig = DEFAULT_RETRY_CONFIG
    /\ attempt = 0
    /\ requests = 0
    /\ lastDelay = 0
    /\ lastResponse = NoStatus
    /\ received = <<>>

(***************************************************************************)
(* Inputs: a module directory holds one or two *.tf files whose text is    *)
(* made of at most MaxFrags of the following pieces, in any order.         *)
(***************************************************************************)
HdrA == << "variable", SP, QUOTE, "a", QUOTE, SP, "{", NL >>

HdrB ==
    << "variable", SP, QUOTE, "b", "_", "c", "_", "a", QUOTE, SP, "{", NL >>

DefaultLine == << SP, "default", SP, "=", SP, "a", NL >>

\* condition before error_message, one attribute per line
ValidationPlain ==
    << SP, "validation", SP, "{", NL,
       SP, "condition", SP, "=", SP, "a", NL,
       SP, "error_message", SP, "=", SP, QUOTE, "a", QUOTE, NL,
       SP, "}", NL >>

\* error_message before condition
ValidationReversed ==
    << SP, "validation", SP, "{", NL,
       SP, "error_message", SP, "=", SP, QUOTE, "a", QUOTE, NL,
       SP, "condition", SP, "=", SP, "a", NL,
       SP, "}", NL >>

\* the condition holds a brace pair spread over several lines
ValidationNested ==
    << SP, "validation", SP, "{", NL,
       SP, "condition", SP, "=", SP, "{", NL,
       SP, "a", NL,
       SP, "}", NL,
       SP, "error_message", SP, "=", SP, QUOTE, "a", QUOTE, NL,
       SP, "}", NL >>

\* a description attribute
DescriptionLine ==
    << SP, "description", SP, "=", SP, QUOTE, "a", QUOTE, NL >>

CloseLine == << "}", NL >>

\* the start of a comment line
Hash == << "#", SP >>

\* a letter directly before what follows
Letter == << "a" >>

Frags ==
    { HdrA, HdrB, DefaultLine, ValidationPlain, ValidationReversed,
      ValidationNested, DescriptionLine, CloseLine, Hash, Letter }

FragSeqs == UNION {[1..n -> Frags] : n \in 0..MaxFrags}

RECURSIVE Flatten(_)
Flatten(fs) == IF fs = <<>> THEN <<>> ELSE Head(fs) \o Flatten(Tail(fs))

(***************************************************************************)
(* prepareContext followed by generateReadme, as one process               *)
(***************************************************************************)
Init ==
    /\ \E fs \in FragSeqs :
          \E k \in 0..(IF Len(fs) > 1 THEN Len(fs) - 1 ELSE 0) :
              files = IF k = 0
                      THEN << Flatten(fs) >>
                      ELSE << Flatten(SubSeq(fs, 1, k)),
                              Flatten(SubSeq(fs, k + 1, Len(fs))) >>
    /\ fileIdx = 0
    /\ content = <<>>
    /\ lastIndex = 1
    /\ startIndex = 0
    /\ blockContent = <<>>
    /\ extracted = <<>>
    /\ variables = <<>>
    /\ requiredVars = <<>>
    /\ triggerVars = <<>>
    /\ conditionalVars = <<>>
    /\ optionalVars = <<>>
    /\ basicUsageBlock = <<>>
    /\ parsed = NoUsage
    /\ conditionalUsageSections = <<>>
    /\ existing = NoFile
    /\ readme = <<>>
    /\ MainIdle
    /\ ClientIdle
    /\ pc = "files"

\* prepareContext, for (const content of Object.values(tfFiles)): the call
\* extractVariables(content) begins
NextFile ==
    /\ pc = "files"
    /\ fileIdx < Len(files)
    /\ fileIdx' = fileIdx + 1
    /\ content' = files[fileIdx + 1]
    /\ lastIndex' = 1
    /\ extracted' = <<>>
    /\ pc' = "exec"
    /\ UNCHANGED << files, startIndex, blockContent, variables, requiredVars,
                    triggerVars, conditionalVars, optionalVars,
                    basicUsageBlock, parsed, conditionalUsageSections >>
    /\ UNCHANGED << existing, readme, mainVars, clientVars >>

\* extractVariables: one iteration of the while loop with a match
ExecMatch ==
    /\ pc = "exec"
    /\ ExecFrom(content, lastIndex) # 0
    /\ LET p == ExecFrom(content, lastIndex)
           m == HeaderMatchAt(content, p)
       IN  /\ startIndex' = m.brace
           /\ blockContent' = parseVariableBlock(content, m.brace)
           /\ extracted' = Append(extracted, VariableAt(content, p))
           /\ lastIndex' = m.brace + 1
    /\ UNCHANGED << files, fileIdx, content, variables, requiredVars,
                    triggerVars, conditionalVars, optionalVars,
                    basicUsageBlock, parsed, conditionalUsageSections, pc >>
    /\ UNCHANGED << existing, readme, mainVars, clientVars >>

\* extractVariables: exec returns null, the array is returned and pushed
ExecNull ==
    /\ pc = "exec"
    /\ ExecFrom(content, lastIndex) = 0
    /\ variables' = variables \o extracted
    /\ lastIndex' = 1
    /\ pc' = "files"
    /\ UNCHANGED << files, fileIdx, content, startIndex, blockContent,
                    extracted, requiredVars, triggerVars, conditionalVars,
                    optionalVars, basicUsageBlock, parsed,
                    conditionalUsageSections >>
    /\ UNCHANGED << existing, readme, mainVars, clientVars >>

\* prepareContext after the loop: the four category lists
Classify ==
    /\ pc = "files"
    /\ fileIdx = Len(files)
    /\ requiredVars' = FilterRequired(variables)
    /\ triggerVars' = FilterTrigger(variables)
    /\ conditionalVars' = FilterConditional(variables)
    /\ optionalVars' = FilterOptional(variables)
    /\ pc' = "context"
    /\ UNCHANGED << files, fileIdx, content, lastIndex, startIndex,
                    blockContent, extracted, variables, basicUsageBlock,
                    parsed, conditionalUsageSections >>
    /\ UNCHANGED << existing, readme, mainVars, clientVars >>

\* generateReadme(dir, parsed, context), called by generateReadmeForDirectory
\* with the parsed AI reply; a TypeError thrown by the rendering is caught by
\* generateReadmeForDirectory, which returns false
GenerateReadme(reply) ==
    /\ pc = "context"
    /\ parsed' = reply
    /\ IF HasUsage(reply) /\ SpreadThrows(reply.conditionalUsage)
       THEN /\ pc' = "threw"
            /\ UNCHANGED << basicUsageBlock, conditionalUsageSections,
                            readme >>
       ELSE /\ basicUsageBlock' =
                  BasicUsageBlock(requiredVars, triggerVars, optionalVars)
            /\ conditionalUsageSections' =
                  IF HasUsage(reply)
                  THEN ConditionalUsageSections(requiredVars, triggerVars,
                                                conditionalVars,
                                                reply.conditionalUsage)
                  ELSE <<>>
            /\ readme' = Readme(basicUsageBlock', conditionalUsageSections',
                                TfDocsSection(existing))
            /\ pc' = "readme"
    /\ UNCHANGED << existing, mainVars, clientVars >>
    /\ UNCHANGED << files, fileIdx, content, lastIndex, startIndex,
                    blockContent, extracted, variables, requiredVars,
                    triggerVars, conditionalVars, optionalVars >>

Next ==
    \/ NextFile
    \/ ExecMatch
    \/ ExecNull
    \/ Classify
    \/ GenerateReadme(NoUsage)

Spec == Init /\ [][Next]_vars

(***************************************************************************)
(* Inputs of the rendering specification: one file of at most MaxDecls     *)
(* closed declarations, and an AI reply of at most MaxGroups usage groups. *)
(***************************************************************************)
DeclNames == { << "a" >>, << "B", "_", "c" >> }

DeclKinds == {"required", "trigger", "conditional"}

Header(name) ==
    << "variable", SP, QUOTE >> \o name \o << QUOTE, SP, "{", NL >>

Declaration(name, kind) ==
    Header(name)
        \o (IF kind = "conditional" THEN DefaultLine ELSE <<>>)
        \o (IF kind \in {"trigger", "conditional"}
            THEN ValidationPlain
            ELSE <<>>)
        \o CloseLine

Declarations == {Declaration(n, k) : n \in DeclNames, k \in DeclKinds}

DeclSeqs == UNION {[1..n -> Declarations] : n \in 0..MaxDecls}

\* the `variables` property of a group: missing, or a list of names
GroupVariables ==
    { [hasVariables |-> FALSE, variables |-> <<>>],
      [hasVariables |-> TRUE, variables |-> <<>>],
      [hasVariables |-> TRUE, variables |-> << << "B", "_", "c" >> >>],
      [hasVariables |-> TRUE,
       variables |-> << << "B", "_", "c" >>, << "a" >> >>] }

\* label, triggerVar and triggerValue of a group: the trigger and its value
\* are both present or both missing
GroupTriggers ==
    { [name |-> << "g" >>, triggerVar |-> << "a" >>, triggerValue |-> << "x" >>],
      [name |-> << "h" >>, triggerVar |-> Undefined, triggerValue |-> Undefined] }

Groups ==
    { [ name |-> t.name,
        triggerVar |-> t.triggerVar,
        triggerValue |-> t.triggerValue,
        hasVariables |-> v.hasVariables,
        variables |-> v.variables ] :
        t \in GroupTriggers, v \in GroupVariables }

Replies ==
    {NoUsage} \cup
    { [hasConditionalUsage |-> TRUE, conditionalUsage |-> gs] :
        gs \in UNION {[1..n -> Groups] : n \in 0..MaxGroups} }

InitRender ==
    /\ \E ds \in DeclSeqs : files = << Flatten(ds) >>
    /\ fileIdx = 0
    /\ content = <<>>
    /\ lastIndex = 1
    /\ startIndex = 0
    /\ blockContent = <<>>
    /\ extracted = <<>>
    /\ variables = <<>>
    /\ requiredVars = <<>>
    /\ triggerVars = <<>>
    /\ conditionalVars = <<>>
    /\ optionalVars = <<>>
    /\ basicUsageBlock = <<>>
    /\ parsed = NoUsage
    /\ conditionalUsageSections = <<>>
    /\ existing = NoFile
    /\ readme = <<>>
    /\ MainIdle
    /\ ClientIdle
    /\ pc = "files"

NextRender ==
    \/ NextFile
    \/ ExecMatch
    \/ ExecNull
    \/ Classify
    \/ \E reply \in Replies : GenerateReadme(reply)

SpecRender == InitRender /\ [][NextRender]_vars

(***************************************************************************)
(* Inputs of the block-extraction specification: every text of at most     *)
(* MaxLen units over braces, a letter and a newline.                       *)
(***************************************************************************)
BraceUnits == {"{", "}", "a", NL}

BraceTexts == UNION {[1..n -> BraceUnits] : n \in 1..MaxLen}

InitBlock ==
    /\ content \in BraceTexts
    /\ startIndex = 0
    /\ blockContent = <<>>
    /\ pc = "call"
    /\ files = <<>>
    /\ fileIdx = 0
    /\ lastIndex = 1
    /\ extracted = <<>>
    /\ variables = <<>>
    /\ requiredVars = <<>>
    /\ triggerVars = <<>>
    /\ conditionalVars = <<>>
    /\ optionalVars = <<>>
    /\ basicUsageBlock = <<>>
    /\ parsed = NoUsage
    /\ conditionalUsageSections = <<>>
    /\ existing = NoFile
    /\ readme = <<>>
    /\ MainIdle
    /\ ClientIdle

\* one call parseVariableBlock(content, i)
CallParseVariableBlock ==
    /\ pc = "call"
    /\ \E i \in 1..Len(content) :
          /\ startIndex' = i
          /\ blockContent' = parseVariableBlock(content, i)
    /\ pc' = "returned"
    /\ UNCHANGED << files, fileIdx, content, lastIndex, extracted, variables,
                    requiredVars, triggerVars, conditionalVars, optionalVars,
                    basicUsageBlock, parsed, conditionalUsageSections >>
    /\ UNCHANGED << existing, readme, mainVars, clientVars >>

NextBlock == CallParseVariableBlock

SpecBlock == InitBlock /\ [][NextBlock]_vars

(***************************************************************************)
(* main: the run over a list of directories.  A directory is missing, is   *)
(* not a directory (a file of that name), or is a module of one *.tf file  *)
(* for which the AI call answers (ai = "reply"), fails (ai = "apiError")   *)
(* or answers something that is no JSON (ai = "notJson").                  *)
(***************************************************************************)
MaxDirs == 2

\* a path that does not exist, and one that is not a directory
NonDirectories ==
    { [exists |-> e, isDirectory |-> FALSE, files |-> <<>>, ai |-> "reply",
       reply |-> NoUsage] : e \in BOOLEAN }

Module(ai, reply) ==
    [exists |-> TRUE, isDirectory |-> TRUE,
     files |-> << Header(<< "a" >>) \o CloseLine >>, ai |-> ai,
     reply |-> reply]

\* the last one has a reply whose one group has no property `variables`
Modules ==
    { Module("reply", NoUsage), Module("apiError", NoUsage),
      Module("notJson", NoUsage),
      Module("reply",
             [hasConditionalUsage |-> TRUE,
              conditionalUsage |->
                 << [name |-> << "g" >>, triggerVar |-> << "a" >>,
                     triggerValue |-> << "x" >>, hasVariables |-> FALSE,
                     variables |-> <<>>] >>]) }

\* nothing of prepareContext and generateReadme has run
PipelineIdle ==
    /\ files = <<>>
    /\ fileIdx = 0
    /\ content = <<>>
    /\ lastIndex = 1
    /\ startIndex = 0
    /\ blockContent = <<>>
    /\ extracted = <<>>
    /\ variables = <<>>
    /\ requiredVars = <<>>
    /\ triggerVars = <<>>
    /\ conditionalVars = <<>>
    /\ optionalVars = <<>>
    /\ basicUsageBlock = <<>>
    /\ parsed = NoUsage
    /\ conditionalUsageSections = <<>>
    /\ existing = NoFile
    /\ readme = <<>>

pipelineVars ==
    << files, fileIdx, content, lastIndex, startIndex, blockContent,
       extracted, variables, requiredVars, triggerVars, conditionalVars,
       optionalVars, basicUsageBlock, parsed, conditionalUsageSections,
       existing, readme >>

InitMain ==
    /\ options \in [type : {Null, "terraform", "bogus"}, dryRun : BOOLEAN,
                     all : BOOLEAN, token : BOOLEAN]
    \* with --all the list comes from findProjectDirectories, which returns
    \* directories that hold matching files
    /\ directories \in
          UNION {[1..n -> (IF options.all THEN Modules
                           ELSE Modules \cup NonDirectories)] :
                    n \in 0..MaxDirs}
    /\ rootReadme \in {"missing", "plain", "markers"}
    /\ dirIdx = 0
    /\ success = 0
    /\ failed = 0
    /\ written = {}
    /\ exitCode = NoExit
    /\ PipelineIdle
    /\ ClientIdle
    /\ pc = "main"

\* the directory of the current for-iteration
Dir == directories[dirIdx]

\* main, lines 250-253: GITHUB_TOKEN is missing
TokenMissing ==
    /\ pc = "main"
    /\ ~options.token
    /\ exitCode' = 1
    /\ pc' = "exited"
    /\ UNCHANGED << pipelineVars, clientVars, options, directories,
                    rootReadme, dirIdx, success, failed, written >>

\* main, lines 263-267: no directory to process
NoDirectories ==
    /\ pc = "main"
    /\ options.token
    /\ Len(directories) = 0
    /\ exitCode' = 0
    /\ pc' = "exited"
    /\ UNCHANGED << pipelineVars, clientVars, options, directories,
                    rootReadme, dirIdx, success, failed, written >>

\* main, lines 269-271: the loop is entered
EnterLoop ==
    /\ pc = "main"
    /\ options.token
    /\ Len(directories) > 0
    /\ pc' = "loop"
    /\ UNCHANGED << pipelineVars, clientVars, mainVars >>

\* main, lines 274-278: the directory does not exist
DirectoryNotFound ==
    /\ pc = "loop"
    /\ dirIdx < Len(directories)
    /\ ~directories[dirIdx + 1].exists
    /\ dirIdx' = dirIdx + 1
    /\ failed' = failed + 1
    /\ UNCHANGED << pipelineVars, clientVars, options, directories,
                    rootReadme, success, written, exitCode, pc >>

\* generateReadmeForDirectory, lines 121-127: getGeneratorByName returns
\* null; listGenerators() returns the configs, so that g.config is
\* undefined in the second console.error and g.config.name throws a
\* TypeError outside the try block; main rejects and its catch handler
\* prints the fatal error and exits with code 1
UnknownType ==
    /\ pc = "loop"
    /\ dirIdx < Len(directories)
    /\ directories[dirIdx + 1].exists
    /\ options.type # Null
    /\ getGeneratorByName(options.type) = Null
    /\ dirIdx' = dirIdx + 1
    /\ exitCode' = 1
    /\ pc' = "fatal"
    /\ UNCHANGED << pipelineVars, clientVars, options, directories,
                    rootReadme, success, failed, written >>

\* generateReadmeForDirectory, line 129: detectGenerator calls
\* fs.readdirSync(dir), which throws outside the try block when dir is not
\* a directory
DetectThrows ==
    /\ pc = "loop"
    /\ dirIdx < Len(directories)
    /\ directories[dirIdx + 1].exists
    /\ options.type = Null
    /\ ~directories[dirIdx + 1].isDirectory
    /\ dirIdx' = dirIdx + 1
    /\ exitCode' = 1
    /\ pc' = "fatal"
    /\ UNCHANGED << pipelineVars, clientVars, options, directories,
                    rootReadme, success, failed, written >>

\* generateReadmeForDirectory, line 137: readFilesByPattern throws inside
\* the try block
PrepareContextThrows ==
    /\ pc = "loop"
    /\ dirIdx < Len(directories)
    /\ directories[dirIdx + 1].exists
    /\ options.type # Null
    /\ GeneratorFor(options.type) = "terraform"
    /\ ~directories[dirIdx + 1].isDirectory
    /\ dirIdx' = dirIdx + 1
    /\ pc' = "threw"
    /\ UNCHANGED << pipelineVars, clientVars, options, directories,
                    rootReadme, success, failed, written, exitCode >>

\* generateReadmeForDirectory, line 137: prepareContext begins with the
\* files of the directory
PrepareContext ==
    /\ pc = "loop"
    /\ dirIdx < Len(directories)
    /\ directories[dirIdx + 1].exists
    /\ directories[dirIdx + 1].isDirectory
    /\ GeneratorFor(options.type) = "terraform"
    /\ dirIdx' = dirIdx + 1
    /\ files' = directories[dirIdx + 1].files
    /\ fileIdx' = 0
    /\ content' = <<>>
    /\ lastIndex' = 1
    /\ startIndex' = 0
    /\ blockContent' = <<>>
    /\ extracted' = <<>>
    /\ variables' = <<>>
    /\ requiredVars' = <<>>
    /\ triggerVars' = <<>>
    /\ conditionalVars' = <<>>
    /\ optionalVars' = <<>>
    /\ basicUsageBlock' = <<>>
    /\ parsed' = NoUsage
    /\ conditionalUsageSections' = <<>>
    /\ existing' = NoFile
    /\ readme' = <<>>
    /\ pc' = "files"
    /\ UNCHANGED << clientVars, options, directories, rootReadme, success,
                    failed, written, exitCode >>

\* generateReadmeForDirectory, lines 153-154: callGitHubModel or
\* parseAIResponse throws
CallFails ==
    /\ pc = "context"
    /\ Dir.ai # "reply"
    /\ pc' = "threw"
    /\ UNCHANGED << pipelineVars, clientVars, mainVars >>

\* generateReadmeForDirectory, line 161, with the parsed reply
Render ==
    /\ pc = "context"
    /\ Dir.ai = "reply"
    /\ GenerateReadme(Dir.reply)

\* generateReadmeForDirectory, lines 163-174, and main, lines 281-282
ReturnTrue ==
    /\ pc = "readme"
    /\ written' = written \cup ModuleWrites(options.dryRun, dirIdx)
    /\ existing' = IF options.dryRun
                   THEN existing
                   ELSE [exists |-> TRUE, content |-> readme]
    /\ success' = success + 1
    /\ pc' = "loop"
    /\ UNCHANGED << files, fileIdx, content, lastIndex, startIndex,
                    blockContent, extracted, variables, requiredVars,
                    triggerVars, conditionalVars, optionalVars,
                    basicUsageBlock, parsed, conditionalUsageSections,
                    readme, clientVars, options, directories, rootReadme,
                    dirIdx, failed, exitCode >>

\* generateReadmeForDirectory, lines 175-181, and main, lines 283-284
ReturnFalse ==
    /\ pc = "threw"
    /\ failed' = failed + 1
    /\ pc' = "loop"
    /\ UNCHANGED << pipelineVars, clientVars, options, directories,
                    rootReadme, dirIdx, success, written, exitCode >>

\* main, lines 288-298: the root README, the summary and the exit code
Summary ==
    /\ pc = "loop"
    /\ dirIdx = Len(directories)
    /\ written' = written \cup RootWrites(options, rootReadme, success)
    /\ exitCode' = ExitCode(failed)
    /\ pc' = "summary"
    /\ UNCHANGED << pipelineVars, clientVars, options, directories,
                    rootReadme, dirIdx, success, failed >>

NextMain ==
    \/ TokenMissing
    \/ NoDirectories
    \/ EnterLoop
    \/ DirectoryNotFound
    \/ UnknownType
    \/ DetectThrows
    \/ PrepareContextThrows
    \/ PrepareContext
    \/ NextFile
    \/ ExecMatch
    \/ ExecNull
    \/ Classify
    \/ CallFails
    \/ Render
    \/ ReturnTrue
    \/ ReturnFalse
    \/ Summary

SpecMain == InitMain /\ [][NextMain]_vars

(***************************************************************************)
(* Regeneration: the tool is run again and again on one module directory   *)
(* whose README.md is, before the first run, missing or any text of at     *)
(* most MaxLen units over the two markers and a letter.                    *)
(***************************************************************************)
InitMarkers ==
    /\ files = << Header(<< "a" >>) \o CloseLine >>
    /\ fileIdx = 0
    /\ content = <<>>
    /\ lastIndex = 1
    /\ startIndex = 0
    /\ blockContent = <<>>
    /\ extracted = <<>>
    /\ variables = <<>>
    /\ requiredVars = <<>>
    /\ triggerVars = <<>>
    /\ conditionalVars = <<>>
    /\ optionalVars = <<>>
    /\ basicUsageBlock = <<>>
    /\ parsed = NoUsage
    /\ conditionalUsageSections = <<>>
    /\ existing \in
          {NoFile}
          \cup { [exists |-> TRUE, content |-> t] :
                  t \in UNION {[1..n -> {BeginMarker, EndMarker, "a"}] :
                                 n \in 0..MaxLen} }
    /\ readme = <<>>
    /\ MainIdle
    /\ ClientIdle
    /\ pc = "files"

\* generateReadmeForDirectory, lines 168-171: README.md is written
WriteReadme ==
    /\ pc = "readme"
    /\ existing' = [exists |-> TRUE, content |-> readme]
    /\ pc' = "written"
    /\ UNCHANGED << files, fileIdx, content, lastIndex, startIndex,
                    blockContent, extracted, variables, requiredVars,
                    triggerVars, conditionalVars, optionalVars,
                    basicUsageBlock, parsed, conditionalUsageSections,
                    readme, mainVars, clientVars >>

\* the next run of the tool on the directory: prepareContext begins
Regenerate ==
    /\ pc = "written"
    /\ fileIdx' = 0
    /\ content' = <<>>
    /\ lastIndex' = 1
    /\ startIndex' = 0
    /\ blockContent' = <<>>
    /\ extracted' = <<>>
    /\ variables' = <<>>
    /\ requiredVars' = <<>>
    /\ triggerVars' = <<>>
    /\ conditionalVars' = <<>>
    /\ optionalVars' = <<>>
    /\ basicUsageBlock' = <<>>
    /\ parsed' = NoUsage
    /\ conditionalUsageSections' = <<>>
    /\ readme' = <<>>
    /\ pc' = "files"
    /\ UNCHANGED << files, existing, mainVars, clientVars >>

NextMarkers ==
    \/ NextFile
    \/ ExecMatch
    \/ ExecNull
    \/ Classify
    \/ GenerateReadme(NoUsage)
    \/ WriteReadme
    \/ Regenerate

SpecMarkers == InitMarkers /\ [][NextMarkers]_vars

(***************************************************************************)
(* callOpenAIFormat and callAnthropicFormat: one call, with a retry        *)
(* configuration of at most MaxRetries retries or the default one.  The    *)
(* two functions have the same loop; format says which one runs.           *)
(***************************************************************************)
MaxRetries == 2

InitClient ==
    /\ format \in {"openai", "anthropic"}
    /\ retryConfig \in
          {DEFAULT_RETRY_CONFIG}
          \cup { [maxRetries |-> m, baseDelayMs |-> 1000, maxDelayMs |-> d] :
                  m \in 0..MaxRetries, d \in {1500, 60000} }
    /\ attempt = 0
    /\ requests = 0
    /\ lastDelay = 0
    /\ lastResponse = NoStatus
    /\ received = <<>>
    /\ PipelineIdle
    /\ MainIdle
    /\ pc = "request"

\* the iteration ends without continue or break: attempt++, and the loop
\* goes on, or ends and the function throws
EndOfIteration ==
    /\ attempt' = attempt + 1
    /\ pc' = IF InLoop(attempt + 1, retryConfig) THEN "request" ELSE "apiError"
    /\ UNCHANGED lastDelay

\* the catch block
Caught ==
    IF CanRetry(attempt, retryConfig)
    THEN /\ lastDelay' = ExponentialDelay(attempt, retryConfig)
         /\ attempt' = attempt + 1
         /\ pc' = "request"
    ELSE EndOfIteration

\* fetch rejects
FetchRejects ==
    /\ pc = "request"
    /\ InLoop(attempt, retryConfig)
    /\ requests' = requests + 1
    /\ received' = Append(received, [status |-> NoStatus, body |-> "fails"])
    /\ Caught
    /\ UNCHANGED << pipelineVars, mainVars, format, retryConfig,
                    lastResponse >>

\* response.ok: the content is returned, or reading it throws
ResponseOk ==
    /\ pc = "request"
    /\ InLoop(attempt, retryConfig)
    /\ \E response \in Responses(200) :
          /\ requests' = requests + 1
          /\ received' = Append(received, Observed(response))
          /\ IF response.body = "read"
             THEN /\ pc' = "returned"
                  /\ UNCHANGED << attempt, lastDelay >>
             ELSE Caught
    /\ UNCHANGED << pipelineVars, mainVars, format, retryConfig,
                    lastResponse >>

\* status 429
RateLimited ==
    /\ pc = "request"
    /\ InLoop(attempt, retryConfig)
    /\ \E response \in Responses(429) :
          /\ requests' = requests + 1
          /\ received' = Append(received, Observed(response))
          /\ IF CanRetry(attempt, retryConfig)
             THEN /\ IF response.body = "read"
                     THEN /\ lastDelay' =
                                calculateRetryDelay(attempt, response,
                                                    response.errorText,
                                                    retryConfig)
                          /\ attempt' = attempt + 1
                          /\ pc' = "request"
                     ELSE Caught
                  /\ UNCHANGED lastResponse
             ELSE /\ lastResponse' = response.status
                  /\ EndOfIteration
    /\ UNCHANGED << pipelineVars, mainVars, format, retryConfig >>

\* an error status other than 429
ErrorStatus ==
    /\ pc = "request"
    /\ InLoop(attempt, retryConfig)
    /\ \E response \in Responses(500) :
          /\ requests' = requests + 1
          /\ received' = Append(received, Observed(response))
          /\ lastResponse' = response.status
          /\ IF response.body = "read"
             THEN IF response.status # 429
                  THEN /\ pc' = "apiError"
                       /\ UNCHANGED << attempt, lastDelay >>
                  ELSE EndOfIteration
             ELSE Caught
    /\ UNCHANGED << pipelineVars, mainVars, format, retryConfig >>

NextClient ==
    \/ FetchRejects
    \/ ResponseOk
    \/ RateLimited
    \/ ErrorStatus

SpecClient == InitClient /\ [][NextClient]_vars

(***************************************************************************)
(* Brace depth, stated without the scan: opening minus closing braces      *)
(* among the units i..j of a text.                                         *)
(***************************************************************************)
Depth(text, i, j) ==
    Cardinality({k \in i..j : text[k] = "{"})
        - Cardinality({k \in i..j : text[k] = "}"})

\* j is the closing brace that matches the opening brace at i
Matches(text, i, j) ==
    /\ j \in (i + 1)..Len(text)
    /\ text[i] = "{"
    /\ text[j] = "}"
    /\ Depth(text, i, j) = 0
    /\ \A k \in i..(j - 1) : Depth(text, i, k) > 0

HasMatch(text, i) == \E j \in (i + 1)..Len(text) : Matches(text, i, j)

(***************************************************************************)
(* C4: parseVariableBlock(content, i), called on an opening brace whose    *)
(* matching closing brace exists, returns exactly the units from i through *)
(* that matching brace: it neither stops at the closing brace of an inner  *)
(* pair nor includes anything after the matching brace.                    *)
(***************************************************************************)
C4_BlockIsBalancedExtent ==
    (pc = "returned" /\ HasMatch(content, startIndex)) =>
        \E j \in (startIndex + 1)..Len(content) :
            /\ Matches(content, startIndex, j)
            /\ blockContent = SubSeq(content, startIndex, j)

\* a nested pair inside the block, and text after the matching brace
C4_Witness ==
    /\ pc = "returned"
    /\ \E j \in (startIndex + 1)..Len(content) :
          /\ Matches(content, startIndex, j)
          /\ j < Len(content)
          /\ \E k \in (startIndex + 1)..(j - 1) : content[k] = "}"
          /\ blockContent = SubSeq(content, startIndex, j)

(***************************************************************************)
(* Helpers of the properties                                               *)
(***************************************************************************)
InSeq(v, seq) == \E i \in 1..Len(seq) : seq[i] = v

Count(v, seq) == Cardinality({i \in 1..Len(seq) : seq[i] = v})

Classified == pc \in {"context", "readme"}

\* the brace opened at i is not closed before the end of the text
Unclosed(text, i) == \A j \in i..Len(text) : Depth(text, i, j) > 0

\* index of the brace closing the one at i, Len(text) when it is unclosed
ClosingIndex(text, i) ==
    IF Unclosed(text, i)
    THEN Len(text)
    ELSE CHOOSE j \in i..Len(text) :
             Depth(text, i, j) = 0 /\ \A k \in i..(j - 1) : Depth(text, i, k) > 0

\* first index at or after i holding no whitespace, Len(s) + 1 when none
AfterSpace(s, i) ==
    CHOOSE k \in i..(Len(s) + 1) :
        /\ \A j \in i..(k - 1) : IsSpace(s[j])
        /\ k <= Len(s) => ~IsSpace(s[k])

\* first index at or after i holding unit u, Len(s) + 1 when none
FirstUnit(s, u, i) ==
    LET hits == {k \in i..Len(s) : s[k] = u}
    IN  IF hits = {} THEN Len(s) + 1 ELSE Least(hits)

\* a header `variable "name" {` stands at p: the keyword, whitespace, a
\* quoted non-empty name, optional whitespace, the opening brace
IsHeader(s, p) ==
    /\ s[p] = "variable"
    /\ LET q1 == AfterSpace(s, p + 1)
           q2 == FirstUnit(s, QUOTE, q1 + 1)
           b == AfterSpace(s, q2 + 1)
       IN  /\ q1 > p + 1
           /\ q1 <= Len(s)
           /\ s[q1] = QUOTE
           /\ q2 <= Len(s)
           /\ q2 - q1 > 1
           /\ b <= Len(s)
           /\ s[b] = "{"

Headers(s) == {p \in 1..Len(s) : IsHeader(s, p)}

HeaderName(s, p) ==
    LET q1 == AfterSpace(s, p + 1)
    IN  SubSeq(s, q1 + 1, FirstUnit(s, QUOTE, q1 + 1) - 1)

HeaderBrace(s, p) ==
    AfterSpace(s, FirstUnit(s, QUOTE, AfterSpace(s, p + 1) + 1) + 1)

\* position of header p among the headers of s, counted from 1
Rank(s, p) == Cardinality({q \in Headers(s) : q <= p})

\* extractVariables(content) has returned `extracted`
Returned == pc = "files" /\ fileIdx > 0

\* the last while-iteration of extractVariables pushed a variable whose
\* block is blockContent
Pushed == pc = "exec" /\ extracted # <<>>

\* a `validation {` sub-block opens at p
IsValidationOpen(s, p) ==
    /\ s[p] = "validation"
    /\ AfterSpace(s, p + 1) <= Len(s)
    /\ s[AfterSpace(s, p + 1)] = "{"

HasValidationSubBlock(s) == \E p \in 1..Len(s) : IsValidationOpen(s, p)

\* the first validation sub-block of s: keyword index, brace, closing brace
FirstValidation(s) ==
    LET p == CHOOSE k \in 1..Len(s) :
                 IsValidationOpen(s, k)
                     /\ \A j \in 1..(k - 1) : ~IsValidationOpen(s, j)
        q == AfterSpace(s, p + 1)
    IN  [keyword |-> p, open |-> q, close |-> ClosingIndex(s, q)]

(***************************************************************************)
(* C1: prepareContext classifies every parsed variable by hasDefault and   *)
(* validation-present: in requiredVars iff it has neither, in triggerVars  *)
(* iff a validation and no default, in conditionalVars iff both, in        *)
(* optionalVars iff a default and no validation.                           *)
(***************************************************************************)
C1_ClassificationTable ==
    Classified =>
        \A i \in 1..Len(variables) :
            LET v == variables[i]
                d == v.hasDefault
                w == v.validation.present
            IN  /\ InSeq(v, requiredVars) <=> (~d /\ ~w)
                /\ InSeq(v, triggerVars) <=> (~d /\ w)
                /\ InSeq(v, conditionalVars) <=> (d /\ w)
                /\ InSeq(v, optionalVars) <=> (d /\ ~w)

\* a module with a required and a trigger variable has been classified
C1_Witness ==
    /\ pc = "context"
    /\ requiredVars # <<>>
    /\ triggerVars # <<>>

(***************************************************************************)
(* C2: the four category lists are pairwise disjoint and together contain  *)
(* every variable exactly once, also when a name is declared twice; the    *)
(* four lengths add up to the number of variables.                         *)
(***************************************************************************)
C2_Partition ==
    Classified =>
        /\ Len(requiredVars) + Len(triggerVars) + Len(conditionalVars)
               + Len(optionalVars) = Len(variables)
        /\ \A i \in 1..Len(variables) :
              LET v == variables[i]
                  r == Count(v, requiredVars)
                  t == Count(v, triggerVars)
                  c == Count(v, conditionalVars)
                  o == Count(v, optionalVars)
              IN  /\ r + t + c + o = Count(v, variables)
                  /\ Cardinality({x \in {<<1, r>>, <<2, t>>, <<3, c>>, <<4, o>>} :
                                     x[2] > 0}) = 1

\* one name declared twice, once with a validation and once bare
C2_Witness ==
    /\ pc = "context"
    /\ \E i, j \in 1..Len(variables) :
          /\ i # j
          /\ variables[i].name = variables[j].name
          /\ InSeq(variables[i], triggerVars)
          /\ InSeq(variables[j], requiredVars)

(***************************************************************************)
(* C3: a variable block without default clause that contains a validation  *)
(* sub-block yields a non-null validation and a place in triggerVars (not  *)
(* requiredVars); with a default clause, in conditionalVars; whatever the  *)
(* order and line layout of condition and error_message.  Stated for the   *)
(* variable pushed last, whose block is blockContent.                      *)
(***************************************************************************)
C3_ValidationBlockMakesTrigger ==
    /\ (Pushed /\ HasValidationSubBlock(blockContent)) =>
           extracted[Len(extracted)].validation.present
    /\ (Classified /\ extracted # <<>>
            /\ HasValidationSubBlock(blockContent)) =>
           LET v == extracted[Len(extracted)]
           IN  IF HasDefault(blockContent)
               THEN InSeq(v, conditionalVars)
               ELSE InSeq(v, triggerVars) /\ ~InSeq(v, requiredVars)

(***************************************************************************)
(* C5: when the brace opened at the start index is never closed,           *)
(* parseVariableBlock returns the text from the opening brace to the end   *)
(* of the text; extractVariables still returns a declaration for that      *)
(* header and for every later header.                                      *)
(***************************************************************************)
C5_UnclosedBlockRunsToEnd ==
    /\ (Pushed /\ Unclosed(content, startIndex)) =>
           blockContent = SubSeq(content, startIndex, Len(content))
    /\ Returned =>
           \A p \in Headers(content) :
               Unclosed(content, HeaderBrace(content, p)) =>
                   \A q \in Headers(content) :
                       q >= p =>
                           /\ Rank(content, q) <= Len(extracted)
                           /\ extracted[Rank(content, q)].name
                                  = HeaderName(content, q)

\* a header whose brace is never closed, followed by another header
C5_Witness ==
    /\ Returned
    /\ \E p, q \in Headers(content) :
          /\ p < q
          /\ Unclosed(content, HeaderBrace(content, p))
          /\ blockContent
                 = SubSeq(content, HeaderBrace(content, q), Len(content))
          /\ Len(extracted) >= 2

(***************************************************************************)
(* C6: extractVariables returns one entry per occurrence of a header       *)
(* `variable "name" {` in the text, in increasing order of position: the   *)
(* i-th entry carries the name of the i-th header.                         *)
(***************************************************************************)
C6_OneEntryPerHeaderInOrder ==
    Returned =>
        /\ Len(extracted) = Cardinality(Headers(content))
        /\ \A p \in Headers(content) :
              extracted[Rank(content, p)].name = HeaderName(content, p)

\* two complete declarations with different names in one file
C6_Witness ==
    /\ Returned
    /\ Len(extracted) = 2
    /\ extracted[1].name # extracted[2].name
    /\ \E p \in Headers(content) : ~Unclosed(content, HeaderBrace(content, p))

(***************************************************************************)
(* C7: header discovery is line-anchored: a declaration is discovered only *)
(* where the header begins a line, not after other characters of a line.   *)
(* Stated for the match of the last iteration, whose brace is startIndex.  *)
(***************************************************************************)
C7_HeadersBeginALine ==
    Pushed =>
        \E p \in Headers(content) :
            /\ HeaderBrace(content, p) = startIndex
            /\ (p = 1 \/ content[p - 1] = NL)

(***************************************************************************)
(* C8: a reported validation has as condition the text strictly between    *)
(* `condition =` and the following error_message keyword of that           *)
(* validation sub-block, trimmed; it never contains error_message.         *)
(***************************************************************************)
C8_ConditionEndsAtErrorMessage ==
    (Pushed /\ extracted[Len(extracted)].validation.present) =>
        LET v == extracted[Len(extracted)].validation
            sub == FirstValidation(blockContent)
            c == FirstUnit(blockContent, "condition", sub.open + 1)
            eq == AfterSpace(blockContent, c + 1)
            m == FirstUnit(blockContent, "error_message", eq + 1)
        IN  /\ HasValidationSubBlock(blockContent)
            /\ c < sub.close
            /\ eq < sub.close
            /\ blockContent[eq] = "="
            /\ m < sub.close
            /\ v.condition = Trim(SubSeq(blockContent, eq + 1, m - 1))
            /\ ~InSeq("error_message", v.condition)

(***************************************************************************)
(* C9: a reported validation has as fullBlock the complete validation      *)
(* sub-block, from the validation keyword to the closing brace matching    *)
(* the sub-block's opening brace, also with nested braces over several     *)
(* lines.                                                                  *)
(***************************************************************************)
C9_FullBlockIsBalancedExtent ==
    (Pushed /\ extracted[Len(extracted)].validation.present) =>
        LET v == extracted[Len(extracted)].validation
            sub == FirstValidation(blockContent)
        IN  /\ HasValidationSubBlock(blockContent)
            /\ ~Unclosed(blockContent, sub.open)
            /\ v.fullBlock = SubSeq(blockContent, sub.keyword, sub.close)

(***************************************************************************)
(* C10: the Basic Usage block holds exactly one line for each Required and *)
(* each Trigger variable and none for an Optional or Conditional one; each *)
(* line assigns "your-<name>" with every underscore of the name replaced   *)
(* by a hyphen.                                                            *)
(***************************************************************************)
\* the lines of the block: the text between two successive newlines
LineBreaks(text) == {i \in 1..Len(text) : text[i] = NL}

LineStarts(text) ==
    { i \in LineBreaks(text) : \E j \in LineBreaks(text) : i < j }

\* the line beginning after the newline at i
LineAt(text, i) ==
    SubSeq(text, i + 1, FirstUnit(text, NL, i + 1) - 1)

\* line assigns the placeholder of the variable called name
IsLineOf(line, name) ==
    LET n == Len(name)
        eq == FirstUnit(line, "=", 1)
        value == SubSeq(line, eq + 2, Len(line))
    IN  /\ Len(line) >= n + 2
        /\ SubSeq(line, 1, 2) = << SP, SP >>
        /\ SubSeq(line, 3, n + 2) = name
        /\ eq > n + 3
        /\ eq < Len(line)
        /\ \A k \in (n + 3)..(eq - 1) : line[k] = SP
        /\ line[eq + 1] = SP
        /\ Len(value) = n + 7
        /\ SubSeq(value, 1, 6) = << QUOTE, "y", "o", "u", "r", "-" >>
        /\ value[Len(value)] = QUOTE
        /\ \A k \in 1..n :
              value[6 + k] = IF name[k] = "_" THEN "-" ELSE name[k]

C10_BasicUsageLines ==
    pc = "readme" =>
        LET basics == requiredVars \o triggerVars
            starts == LineStarts(basicUsageBlock)
        IN  /\ Cardinality(starts) = Len(basics)
            /\ \A i \in 1..Len(variables) :
                  LET name == Expand(variables[i].name)
                  IN  Cardinality({k \in starts :
                                      IsLineOf(LineAt(basicUsageBlock, k), name)})
                          = Cardinality({j \in 1..Len(basics) :
                                            Expand(basics[j].name) = name})

\* a variable whose name has two underscores is rendered and an optional
\* variable of the same module is left out
C10_Witness ==
    /\ pc = "readme"
    /\ optionalVars # <<>>
    /\ \E i \in 1..Len(requiredVars \o triggerVars) :
          LET name == (requiredVars \o triggerVars)[i].name
          IN  /\ Cardinality({k \in 1..Len(name) : name[k] = "_"}) >= 2
              /\ \E k \in LineStarts(basicUsageBlock) :
                    IsLineOf(LineAt(basicUsageBlock, k), Expand(name))

(***************************************************************************)
(* Rendered usage blocks: their lines, the name a line begins with, and    *)
(* the variable block of the k-th conditional usage section.               *)
(***************************************************************************)
\* the element of the set of indices S that has rank k, counted from 1
NthOf(S, k) == CHOOSE i \in S : Cardinality({j \in S : j <= i}) = k

LineBegins(text) ==
    {i \in 1..Len(text) : text[i] # NL /\ (i = 1 \/ text[i - 1] = NL)}

\* the non-empty lines of a text, in order
Lines(text) ==
    LET begins == LineBegins(text)
    IN  [k \in 1..Cardinality(begins) |->
            LET b == NthOf(begins, k)
            IN  SubSeq(text, b, FirstUnit(text, NL, b) - 1)]

\* the name of a line: what follows the two-space indentation, up to the
\* next space
LineName(line) == SubSeq(line, 3, FirstUnit(line, SP, 3) - 1)

LineNames(text) ==
    LET lines == Lines(text)
    IN  [k \in 1..Len(lines) |-> LineName(lines[k])]

SectionOpens ==
    {i \in 1..Len(conditionalUsageSections) :
        conditionalUsageSections[i] = ModuleOpen}

SectionCount == Cardinality(SectionOpens)

\* the text between the module opening and closing of the k-th section
SectionVars(k) ==
    LET o == NthOf(SectionOpens, k)
    IN  SubSeq(conditionalUsageSections, o + 1,
               FirstUnit(conditionalUsageSections, ModuleClose, o) - 1)

\* the group the k-th section was rendered for
Usage(k) == parsed.conditionalUsage[k]

Rendered == pc = "readme"

(***************************************************************************)
(* C11: in the Basic Usage block and in every conditional usage section    *)
(* the variable lines stand in non-decreasing alphabetical order of their  *)
(* names, whatever the order of discovery and of the group's list.         *)
(***************************************************************************)
\* place of a letter in the alphabet, either case; 0 for any other character
LetterIndex(ch) ==
    IF \E i \in 1..Len(LowerCase) : LowerCase[i] = ch \/ UpperCase[i] = ch
    THEN CHOOSE i \in 1..Len(LowerCase) :
             LowerCase[i] = ch \/ UpperCase[i] = ch
    ELSE 0

\* a does not come after b in the dictionary
AlphabeticalLeq(a, b) ==
    \E n \in 0..Len(a) :
        /\ n <= Len(b)
        /\ \A i \in 1..n : LetterIndex(a[i]) = LetterIndex(b[i])
        /\ \/ n = Len(a)
           \/ /\ n < Len(b)
              /\ LetterIndex(a[n + 1]) < LetterIndex(b[n + 1])

NamesAscend(text) ==
    LET names == LineNames(text)
    IN  \A k \in 1..(Len(names) - 1) : AlphabeticalLeq(names[k], names[k + 1])

Swap(seq, i) == [seq EXCEPT ![i] = seq[i + 1], ![i + 1] = seq[i]]

SwapVariables(k, i) ==
    [parsed.conditionalUsage EXCEPT
        ![k] = [@ EXCEPT !.variables = Swap(@, i)]]

C12_OrderIndependent ==
    Rendered =>
        /\ \A i \in 1..(Len(requiredVars) - 1) :
              /\ BasicUsageBlock(Swap(requiredVars, i), triggerVars,
                                 optionalVars) = basicUsageBlock
              /\ ConditionalUsageSections(Swap(requiredVars, i), triggerVars,
                                          conditionalVars,
                                          parsed.conditionalUsage)
                    = conditionalUsageSections
        /\ \A i \in 1..(Len(triggerVars) - 1) :
              /\ BasicUsageBlock(requiredVars, Swap(triggerVars, i),
                                 optionalVars) = basicUsageBlock
              /\ ConditionalUsageSections(requiredVars, Swap(triggerVars, i),
                                          conditionalVars,
                                          parsed.conditionalUsage)
                    = conditionalUsageSections
        /\ \A k \in 1..Len(parsed.conditionalUsage) :
              \A i \in 1..(Len(Usage(k).variables) - 1) :
                  ConditionalUsageSections(requiredVars, triggerVars,
                                           conditionalVars,
                                           SwapVariables(k, i))
                      = conditionalUsageSections

\* two Required variables of different names, and a group that lists two
\* different names, have been rendered
C12_Witness ==
    /\ Rendered
    /\ Len(requiredVars) = 2
    /\ requiredVars[1].name # requiredVars[2].name
    /\ basicUsageBlock # <<>>
    /\ \E k \in 1..Len(parsed.conditionalUsage) :
          /\ Len(Usage(k).variables) = 2
          /\ Usage(k).variables[1] # Usage(k).variables[2]
    /\ SectionCount = Len(parsed.conditionalUsage)

(***************************************************************************)
(* The parts of a rendered line: two spaces, the name, padding, " = ", the *)
(* quoted value and, possibly, a comment.                                  *)
(***************************************************************************)
LineEquals(line) == FirstUnit(line, "=", 1)

\* index of the quote that closes the value
LineValueEnd(line) == FirstUnit(line, QUOTE, LineEquals(line) + 3)

\* the value with its quotes
LineValue(line) == SubSeq(line, LineEquals(line) + 2, LineValueEnd(line))

\* what follows the value
LineComment(line) == SubSeq(line, LineValueEnd(line) + 1, Len(line))

Quoted(str) == << QUOTE >> \o str \o << QUOTE >>

\* "your-<name>" with a hyphen for every underscore of the name
GenericPlaceholder(name) ==
    Quoted(<< "y", "o", "u", "r", "-" >>
               \o [i \in 1..Len(name) |->
                      IF name[i] = "_" THEN "-" ELSE name[i]])

\* the line is the line of the group's trigger variable
IsTriggerLine(line, usage) ==
    usage.triggerVar # Undefined /\ LineName(line) = Expand(usage.triggerVar)

(***************************************************************************)
(* C13: in the section of a usage group the line whose name is the group's *)
(* triggerVar shows the group's triggerValue in double quotes, and every   *)
(* other line shows the generic "your-..." placeholder.                    *)
(***************************************************************************)
C13_TriggerLineShowsValue ==
    Rendered =>
        \A k \in 1..SectionCount :
            LET lines == Lines(SectionVars(k))
            IN  \A n \in 1..Len(lines) :
                    LineValue(lines[n]) =
                        IF IsTriggerLine(lines[n], Usage(k))
                        THEN Quoted(Expand(Usage(k).triggerValue))
                        ELSE GenericPlaceholder(LineName(lines[n]))

\* a section shows the value on the line of its trigger a and the
\* placeholder on the line of B_c, a Trigger variable of the module too
C13_Witness ==
    /\ Rendered
    /\ includes(Names(triggerVars), << "B", "_", "c" >>)
    /\ \E k \in 1..SectionCount :
          LET lines == Lines(SectionVars(k))
          IN  /\ \E n \in 1..Len(lines) :
                    /\ IsTriggerLine(lines[n], Usage(k))
                    /\ LineValue(lines[n]) = << QUOTE, "x", QUOTE >>
              /\ \E n \in 1..Len(lines) :
                    /\ LineName(lines[n]) = << "B", "_", "c" >>
                    /\ LineValue(lines[n]) =
                          << QUOTE, "y", "o", "u", "r", "-", "B", "-", "c",
                             QUOTE >>

(***************************************************************************)
(* C14, as stated: for every usage group whose triggerVar is one of the    *)
(* rendered variables the section contains the exact text                  *)
(* <triggerVar> = "<triggerValue>", with one space on each side of the     *)
(* equals sign, whatever the other names of the section.                   *)
(***************************************************************************)
Contains(text, pat) ==
    \E i \in 1..(Len(text) - Len(pat) + 1) :
        SubSeq(text, i, i + Len(pat) - 1) = pat

\* the names the section of group k is rendered for
SectionNames(k) ==
    Names(requiredVars) \o Names(triggerVars) \o Usage(k).variables

TriggerRendered(k) ==
    Usage(k).triggerVar # Undefined
        /\ includes(SectionNames(k), Usage(k).triggerVar)

ExactTriggerText(usage) ==
    Expand(usage.triggerVar) \o << SP, "=", SP >>
        \o Quoted(Expand(usage.triggerValue))

LongestName(text) ==
    LET names == LineNames(text)
    IN  CHOOSE w \in {Len(names[n]) : n \in 1..Len(names)} \cup {0} :
            /\ \A n \in 1..Len(names) : Len(names[n]) <= w
            /\ w = 0 => Len(names) = 0

PaddedTriggerLine(usage, w) ==
    << SP, SP >> \o Expand(usage.triggerVar)
        \o [i \in 1..(w - Len(Expand(usage.triggerVar))) |-> SP]
        \o << SP, "=", SP >> \o Quoted(Expand(usage.triggerValue))

IsListed(line, usage) ==
    \E i \in 1..Len(usage.variables) :
        Expand(usage.variables[i]) = LineName(line)

ExpectedComment(usage) ==
    << SP, SP, "#", SP, RequiredWhen, SP >> \o ExactTriggerText(usage)

C15_CommentIffListed ==
    Rendered =>
        \A k \in 1..SectionCount :
            LET lines == Lines(SectionVars(k))
            IN  \A n \in 1..Len(lines) :
                    IF IsListed(lines[n], Usage(k))
                    THEN /\ LineComment(lines[n]) # <<>>
                         /\ Usage(k).triggerVar # Undefined =>
                               LineComment(lines[n])
                                   = ExpectedComment(Usage(k))
                    ELSE LineComment(lines[n]) = <<>>

\* a section has the line of its trigger a without comment and the line of
\* the listed name B_c with the comment
C15_Witness ==
    /\ Rendered
    /\ \E k \in 1..SectionCount :
          LET lines == Lines(SectionVars(k))
          IN  /\ Usage(k).triggerVar = << "a" >>
              /\ \E n \in 1..Len(lines) :
                    /\ IsTriggerLine(lines[n], Usage(k))
                    /\ ~IsListed(lines[n], Usage(k))
                    /\ LineComment(lines[n]) = <<>>
              /\ \E n \in 1..Len(lines) :
                    /\ LineName(lines[n]) = << "B", "_", "c" >>
                    /\ LineComment(lines[n]) =
                          << SP, SP, "#", SP, RequiredWhen, SP, "a", SP, "=",
                             SP, QUOTE, "x", QUOTE >>

(***************************************************************************)
(* C16: the section of a group shows the set union of the Required names,  *)
(* the Trigger names and the names the group lists: every distinct name    *)
(* has exactly one line, also a listed name that is a Required or Trigger  *)
(* variable as well.  Stated for modules that declare no Required or       *)
(* Trigger name twice.                                                     *)
(***************************************************************************)
Distinct(seq) == \A i, j \in 1..Len(seq) : seq[i] = seq[j] => i = j

C17_UnknownNameIsRendered ==
    Rendered =>
        \A k \in 1..SectionCount :
            \A i \in 1..Len(Usage(k).variables) :
                LET v == Usage(k).variables[i]
                    lines == Lines(SectionVars(k))
                IN  ~includes(Names(conditionalVars), v) =>
                        \E n \in 1..Len(lines) :
                            /\ LineName(lines[n]) = Expand(v)
                            /\ v # Usage(k).triggerVar =>
                                  LineValue(lines[n])
                                      = GenericPlaceholder(Expand(v))
                            /\ LineComment(lines[n]) # <<>>
                            /\ Usage(k).triggerVar # Undefined =>
                                  LineComment(lines[n])
                                      = ExpectedComment(Usage(k))

\* a group lists B_c in a module that declares no variable of that name;
\* the section has the line of B_c
C17_Witness ==
    /\ Rendered
    /\ variables # <<>>
    /\ ~includes(Names(variables), << "B", "_", "c" >>)
    /\ \E k \in 1..SectionCount :
          /\ includes(Usage(k).variables, << "B", "_", "c" >>)
          /\ Usage(k).triggerVar = << "a" >>
          /\ \E n \in 1..Len(Lines(SectionVars(k))) :
                Lines(SectionVars(k))[n] =
                    << SP, SP, "B", "_", "c", SP, "=", SP, QUOTE, "y", "o",
                       "u", "r", "-", "B", "-", "c", QUOTE, SP, SP, "#", SP,
                       RequiredWhen, SP, "a", SP, "=", SP, QUOTE, "x",
                       QUOTE >>

(***************************************************************************)
(* C18: generateReadme returns a README without raising for every          *)
(* conditionalUsage list, also when a group has no variables list, an      *)
(* empty one, or no trigger name and value.                                *)
(***************************************************************************)
C18_GenerateReadmeNeverRaises == pc # "threw"

(***************************************************************************)
(* C19: in every rendered usage block each name is padded on the right to  *)
(* the length of the longest name of that same block, so that the equals   *)
(* signs of the block stand in one column; the width comes from the names  *)
(* of that block alone.                                                    *)
(***************************************************************************)
AlignedBlock(text) ==
    LET lines == Lines(text)
        w == LongestName(text)
    IN  \A n \in 1..Len(lines) :
            /\ LineEquals(lines[n]) = w + 4
            /\ \A j \in (3 + Len(LineName(lines[n])))..(w + 3) :
                  lines[n][j] = SP

C19_EqualsSignsInOneColumn ==
    Rendered =>
        /\ AlignedBlock(basicUsageBlock)
        /\ \A k \in 1..SectionCount : AlignedBlock(SectionVars(k))

\* a is the only name of the Basic Usage block and is not padded there; in
\* a section that lists B_c it is padded to three characters
C19_Witness ==
    /\ Rendered
    /\ Lines(basicUsageBlock) =
          << << SP, SP, "a", SP, "=", SP, QUOTE, "y", "o", "u", "r", "-",
                "a", QUOTE >> >>
    /\ \E k \in 1..SectionCount :
          LET lines == Lines(SectionVars(k))
          IN  /\ Len(lines) = 2
              /\ SubSeq(lines[1], 1, 7) = << SP, SP, "a", SP, SP, SP, "=" >>
              /\ SubSeq(lines[2], 1, 7) = << SP, SP, "B", "_", "c", SP, "=" >>

(***************************************************************************)
(* C20: extractVariables gives every variable it pushes the defaults of    *)
(* the fields its block does not set: description is the empty string      *)
(* when the block has no description attribute with a quoted non-empty     *)
(* value, hasDefault is false when it has no "default =" clause, and       *)
(* validation is null when it has no validation sub-block.                 *)
(***************************************************************************)
\* description, optional whitespace, =, optional whitespace, a quoted
\* non-empty string
HasDescriptionAttribute(s) ==
    \E p \in 1..Len(s) :
        /\ s[p] = "description"
        /\ LET e == AfterSpace(s, p + 1)
               q == AfterSpace(s, e + 1)
           IN  /\ e <= Len(s)
               /\ s[e] = "="
               /\ q <= Len(s)
               /\ s[q] = QUOTE
               /\ FirstUnit(s, QUOTE, q + 1) <= Len(s)
               /\ FirstUnit(s, QUOTE, q + 1) > q + 1

HasDefaultClause(s) ==
    \E p \in 1..Len(s) :
        /\ s[p] = "default"
        /\ AfterSpace(s, p + 1) <= Len(s)
        /\ s[AfterSpace(s, p + 1)] = "="

C20_AbsentFieldsTakeDefaults ==
    Pushed =>
        LET v == extracted[Len(extracted)]
        IN  /\ ~HasDescriptionAttribute(blockContent) => v.description = <<>>
            /\ ~HasDefaultClause(blockContent) => v.hasDefault = FALSE
            /\ ~HasValidationSubBlock(blockContent) => ~v.validation.present

\* a block with a description and nothing else has been parsed: the
\* description is reported, hasDefault is false and validation is null
C20_Witness ==
    /\ Pushed
    /\ HasDescriptionAttribute(blockContent)
    /\ ~HasDefaultClause(blockContent)
    /\ ~HasValidationSubBlock(blockContent)
    /\ extracted[Len(extracted)].description = << "a" >>
    /\ extracted[Len(extracted)].hasDefault = FALSE
    /\ ~extracted[Len(extracted)].validation.present


(***************************************************************************)
(* C21: when no file holds a variable header (empty text, or text without  *)
(* the keyword) the four category lists are empty, the Basic Usage block   *)
(* is empty and so has no variable line, and neither prepareContext nor    *)
(* generateReadme raises.                                                  *)
(***************************************************************************)
NoVariableKeyword ==
    \A f \in 1..Len(files) :
        \A i \in 1..Len(files[f]) : files[f][i] # "variable"

C21_NoDeclarationsNothingRendered ==
    NoVariableKeyword =>
        /\ pc # "threw"
        /\ Classified =>
              /\ variables = <<>>
              /\ requiredVars = <<>>
              /\ triggerVars = <<>>
              /\ conditionalVars = <<>>
              /\ optionalVars = <<>>
        /\ pc = "readme" =>
              /\ basicUsageBlock = <<>>
              /\ LineBegins(basicUsageBlock) = {}

\* two files without header, a default clause in the first and a
\* validation sub-block in the second, have been rendered
C21_Witness ==
    /\ pc = "readme"
    /\ NoVariableKeyword
    /\ Len(files) = 2
    /\ HasDefaultClause(files[1])
    /\ HasValidationSubBlock(files[2])
    /\ variables = <<>>
    /\ basicUsageBlock = <<>>

(***************************************************************************)
(* C22: each of the four category lists keeps the discovery order of its   *)
(* members: the list is `variables` with some entries left out, and of two *)
(* variables of one category the one discovered first stands first.        *)
(***************************************************************************)
\* sub is seq with some entries left out
IsSubsequence(sub, seq) ==
    \E S \in SUBSET (1..Len(seq)) :
        /\ Cardinality(S) = Len(sub)
        /\ \A i \in 1..Len(sub) : sub[i] = seq[NthOf(S, i)]

KeepsDiscoveryOrder(list) ==
    /\ IsSubsequence(list, variables)
    /\ \A i, j \in 1..Len(variables) :
          (i < j /\ InSeq(variables[i], list) /\ InSeq(variables[j], list)) =>
              \E p, q \in 1..Len(list) :
                  /\ p < q
                  /\ list[p] = variables[i]
                  /\ list[q] = variables[j]

C22_DiscoveryOrderKept ==
    Classified =>
        /\ KeepsDiscoveryOrder(requiredVars)
        /\ KeepsDiscoveryOrder(triggerVars)
        /\ KeepsDiscoveryOrder(conditionalVars)
        /\ KeepsDiscoveryOrder(optionalVars)

\* b_c_a is discovered before a and both are triggers; the list holds
\* b_c_a first, against the order of the names
C22_Witness ==
    /\ pc = "context"
    /\ Len(variables) = 2
    /\ Names(variables) = << << "b", "_", "c", "_", "a" >>, << "a" >> >>
    /\ Names(triggerVars) = Names(variables)


(***************************************************************************)
(* C23: the README holds exactly one Basic Usage block and, after it, one  *)
(* `### Usage with <name>` section for every group of the reply's          *)
(* conditionalUsage list, in the order of the list and headed by the       *)
(* label of the group, also for a group whose variables list is empty;     *)
(* with an empty or absent list the README has no such section.            *)
(***************************************************************************)
CountUnit(text, u) == Cardinality({i \in 1..Len(text) : text[i] = u})

Headings(text) == {i \in 1..Len(text) : text[i] = UsageHeading}

\* what stands between the heading at i and the module block under it
HeadingLabel(text, i) == SubSeq(text, i + 1, FirstUnit(text, ModuleOpen, i) - 1)

C23_OneSectionPerGroup ==
    Rendered =>
        LET groups == parsed.conditionalUsage
            heads == Headings(readme)
        IN  /\ CountUnit(readme, BasicUsageOpen) = 1
            /\ CountUnit(readme, BasicUsageClose) = 1
            /\ FirstUnit(readme, BasicUsageOpen, 1)
                   < FirstUnit(readme, BasicUsageClose, 1)
            /\ Cardinality(heads) = Len(groups)
            /\ CountUnit(readme, ModuleOpen) = Len(groups)
            /\ CountUnit(readme, ModuleClose) = Len(groups)
            /\ \A k \in 1..Len(groups) :
                  LET h == NthOf(heads, k)
                  IN  /\ h > FirstUnit(readme, BasicUsageClose, 1)
                      /\ h < FirstUnit(readme, UsingOutputs, 1)
                      /\ HeadingLabel(readme, h) = Expand(groups[k].name)

\* the reply lists the group h with an empty variables list before the
\* group g; the README has the section of h, then the section of g
C23_Witness ==
    /\ Rendered
    /\ Len(parsed.conditionalUsage) = 2
    /\ parsed.conditionalUsage[1].name = << "h" >>
    /\ parsed.conditionalUsage[1].variables = <<>>
    /\ parsed.conditionalUsage[2].name = << "g" >>
    /\ Cardinality(Headings(readme)) = 2
    /\ HeadingLabel(readme, NthOf(Headings(readme), 1)) = << "h" >>
    /\ HeadingLabel(readme, NthOf(Headings(readme), 2)) = << "g" >>


(***************************************************************************)
(* C24: with --dry-run no file is written during the whole run: neither    *)
(* the README.md of any directory nor the root README, whatever the        *)
(* directories hold and whatever the AI call brings.                       *)
(***************************************************************************)
C24_DryRunWritesNothing ==
    options.dryRun =>
        /\ written = {}
        /\ ~existing.exists

\* a dry run with --all over two modules, one of which failed, has ended;
\* the root README has the module markers and would have been updated
C24_Witness ==
    /\ options.dryRun
    /\ options.all
    /\ pc = "summary"
    /\ rootReadme = "markers"
    /\ success = 1
    /\ failed = 1
    /\ readme # <<>>
    /\ written = {}

(***************************************************************************)
(* C28: when --type names no registered generator, the call                *)
(* generateReadmeForDirectory returns false without raising: main counts   *)
(* the directory as failed, goes on with the other directories and ends    *)
(* with the summary and exit code 1, never with the fatal error.           *)
(***************************************************************************)
UnregisteredType == options.type # Null /\ options.type \notin GeneratorNames

C28_UnknownTypeCountsAsFailed ==
    UnregisteredType =>
        /\ pc # "fatal"
        /\ pc = "loop" => failed = dirIdx
        /\ pc = "summary" =>
              /\ failed = Len(directories)
              /\ exitCode = 1

(***************************************************************************)
(* C29: main takes the directories one at a time in list order; a          *)
(* directory that is missing, or whose processing throws in                *)
(* prepareContext, in the AI call, in parsing the reply or in rendering,   *)
(* is counted as failed and the next directory is processed; when the      *)
(* summary is printed every directory has been taken, success + failed is  *)
(* the number of directories, and the exit code is 1 if and only if        *)
(* failed > 0.                                                             *)
(***************************************************************************)
\* the directory fails in one of the ways the loop survives
FailsInside(d) ==
    \/ ~d.exists
    \/ ~d.isDirectory
    \/ d.ai # "reply"
    \/ (HasUsage(d.reply) /\ SpreadThrows(d.reply.conditionalUsage))

FailuresAmong(n) ==
    Cardinality({i \in 1..n : FailsInside(directories[i])})

InsideDirectory == pc \in {"files", "exec", "context", "readme", "threw"}

C29_EveryDirectoryCounted ==
    /\ pc = "loop" =>
          /\ success + failed = dirIdx
          /\ failed = FailuresAmong(dirIdx)
    /\ InsideDirectory =>
          /\ dirIdx \in 1..Len(directories)
          /\ success + failed = dirIdx - 1
          /\ failed = FailuresAmong(dirIdx - 1)
          /\ pc # "threw" => files = Dir.files
    /\ pc = "summary" =>
          /\ dirIdx = Len(directories)
          /\ success + failed = Len(directories)
          /\ failed = FailuresAmong(Len(directories))
          /\ exitCode = 1 <=> failed > 0
          /\ exitCode = 0 <=> failed = 0
    /\ pc = "fatal" =>
          \/ UnregisteredType
          \/ options.type = Null /\ ~Dir.isDirectory

\* the AI call fails for the first of two directories and the second
\* succeeds: both are counted and the run ends with code 1
C29_Witness ==
    /\ pc = "summary"
    /\ Len(directories) = 2
    /\ directories[1].ai = "apiError"
    /\ ~FailsInside(directories[2])
    /\ success = 1
    /\ failed = 1
    /\ exitCode = 1


(***************************************************************************)
(* C30: extractBetweenMarkers returns the part of the content from the     *)
(* begin marker through the end marker when both occur and the default     *)
(* pair otherwise; in every case the result starts with the begin marker   *)
(* and ends with the end marker, and the README built with it gives the    *)
(* same section back when the tool runs again on its own output.           *)
(***************************************************************************)
Occurs(text, u) == \E i \in 1..Len(text) : text[i] = u

\* part is a run of neighbouring units of text
IsPartOf(part, text) ==
    \E i \in 1..(Len(text) + 1) :
        /\ i + Len(part) - 1 <= Len(text)
        /\ SubSeq(text, i, i + Len(part) - 1) = part

C30_SectionKeptWellFormed ==
    pc = "readme" =>
        LET section == TfDocsSection(existing)
        IN  /\ section # <<>>
            /\ section[1] = BeginMarker
            /\ section[Len(section)] = EndMarker
            /\ IF existing.exists /\ Occurs(existing.content, BeginMarker)
                                  /\ Occurs(existing.content, EndMarker)
               THEN IsPartOf(section, existing.content)
               ELSE section = << BeginMarker, NL, EndMarker >>
            /\ extractBetweenMarkers(readme, BeginMarker, EndMarker) = section

(***************************************************************************)
(* The retry loop of the AI client                                         *)
(***************************************************************************)
\* a response with an ok status whose content was read
Answered(r) == r.status = 200 /\ r.body = "read"

\* an HTTP error response whose status is not 429
OtherError(r) == r.status \notin {NoStatus, 200, 429}

LastReceived == received[Len(received)]

\* C25 as stated: a call makes at most retryConfig.maxRetries + 1 requests;
\* after a successful response it has returned and made no further request;
\* it throws only once the attempts are used up
C25_ReturnsFirstOkOrThrowsWhenUsedUp ==
    /\ requests <= retryConfig.maxRetries + 1
    /\ \A i \in 1..Len(received) :
          received[i].status = 200 => i = Len(received) /\ pc = "returned"
    /\ pc = "apiError" => requests = retryConfig.maxRetries + 1

\* C25 amended: a call makes one request per attempt and at most
\* retryConfig.maxRetries + 1 of them; it returns at the first successful
\* response whose content could be read and makes no request after it; it
\* throws once the attempts are used up or right after an error response
\* other than 429 whose text could be read; a 429 response is followed by
\* another request only while attempts remain
C25_BoundedRequests ==
    /\ requests = Len(received)
    /\ requests <= retryConfig.maxRetries + 1
    /\ pc = "request" => attempt = requests /\ attempt <= retryConfig.maxRetries
    /\ \A i \in 1..Len(received) :
          /\ Answered(received[i]) => i = Len(received) /\ pc = "returned"
          /\ received[i].status = 429 /\ i < Len(received)
                => i - 1 < retryConfig.maxRetries
    /\ pc = "returned" => requests > 0 /\ Answered(LastReceived)
    /\ pc = "apiError" =>
          \/ requests = retryConfig.maxRetries + 1
          \/ OtherError(LastReceived) /\ LastReceived.body = "read"

\* the last allowed attempt of a call with two retries brings the content,
\* after a 429 and a rejected fetch
C25_Witness ==
    /\ pc = "returned"
    /\ retryConfig.maxRetries = 2
    /\ requests = 3
    /\ received[1].status = 429
    /\ received[2].status = NoStatus

\* C26: once an error response whose status is not 429 has been received,
\* the call makes no further request and throws an error reporting that
\* status
C26_OtherErrorNeverRetried ==
    \A i \in 1..Len(received) :
        OtherError(received[i]) =>
            /\ i = Len(received)
            /\ pc = "apiError"
            /\ lastResponse = received[i].status

\* C27: every wait between two attempts is at most retryConfig.maxDelayMs
C27_WaitAtMostMaxDelay == lastDelay <= retryConfig.maxDelayMs

=============================================================================
